---- MODULE Spec2Model ----
(***************************************************************************)
(* A model of the bat template engine: the lexer (internal/lexer), the     *)
(* parser (internal/parser), and the evaluator (Template.Execute, eval,    *)
(* access, valueToString) together with the arithmetic and comparison      *)
(* helpers.  Template sources are sequences of one-character strings.      *)
(***************************************************************************)
EXTENDS Integers, Sequences, FiniteSets, TLC

(***************************************************************************)
(* Characters                                                              *)
(***************************************************************************)
Letters ==
  {"a", "b", "c", "d", "e", "f", "g", "h", "i", "j", "k", "l", "m", "n",
   "o", "p", "q", "r", "s", "t", "u", "v", "w", "x", "y", "z"}

Digits == {"0", "1", "2", "3", "4", "5", "6", "7", "8", "9"}

Spaces == {" ", "\t", "\n", "\r"}

IsLetter(r) == r \in Letters

IsDigit(r) == r \in Digits

IsNumber(r) == r \in Digits

IsSpace(r) == r \in Spaces

\* The rune returned by next() at the end of the input.
eof == "EOF"

leftDelim == <<"{", "{">>

rightDelim == <<"}", "}">>

(***************************************************************************)
(* Strings as sequences of characters                                      *)
(***************************************************************************)
\* input[from:to] of Go, with 0-based byte offsets.
Slice(s, from, to) == SubSeq(s, from + 1, to)

HasPrefix(s, prefix) ==
  /\ Len(s) >= Len(prefix)
  /\ SubSeq(s, 1, Len(prefix)) = prefix

RECURSIVE IndexFrom(_, _, _)
\* The smallest 0-based offset i >= from at which sub occurs in s, or -1.
IndexFrom(s, sub, from) ==
  IF from + Len(sub) > Len(s) THEN -1
  ELSE IF SubSeq(s, from + 1, from + Len(sub)) = sub THEN from
  ELSE IndexFrom(s, sub, from + 1)

\* strings.Index
Index(s, sub) == IndexFrom(s, sub, 0)

\* strings.Count(s, "\n")
CountNewlines(s) == Cardinality({i \in 1..Len(s) : s[i] = "\n"})

(***************************************************************************)
(* Lexer                                                                   *)
(***************************************************************************)
Token(kind, value, startLine, endLine) ==
  [kind |-> kind, value |-> value, startLine |-> startLine, endLine |-> endLine]

\* The Lexer struct after construction in Lex; panicked records a Go panic
\* raised while lexing.
NewLexer ==
  [start |-> 0, pos |-> 0, tokens |-> <<>>, line |-> 1, startLine |-> 1,
   panicked |-> FALSE]

emit(input, l, kind) ==
  [l EXCEPT !.tokens = Append(l.tokens,
                              Token(kind, Slice(input, l.start, l.pos),
                                    l.startLine, l.line)),
            !.startLine = l.line,
            !.start = l.pos]

\* The error token carries only a message: its lines stay zero.
emitError(l) ==
  [l EXCEPT !.tokens = Append(l.tokens, Token("error", <<"unexpected token">>, 0, 0))]

\* The rune next() returns.
nextRune(input, l) == IF l.pos >= Len(input) THEN eof ELSE input[l.pos + 1]

\* The lexer after next().
next(input, l) ==
  IF l.pos >= Len(input) THEN l
  ELSE [l EXCEPT !.pos = l.pos + 1,
                 !.line = IF input[l.pos + 1] = "\n" THEN l.line + 1 ELSE l.line]

\* The lexer after backup(): the last rune before pos is undone, also when
\* next() did not advance because the input had ended.
backup(input, l) ==
  IF l.pos = 0 THEN l
  ELSE [l EXCEPT !.pos = l.pos - 1,
                 !.line = IF input[l.pos] = "\n" THEN l.line - 1 ELSE l.line]

peekRune(input, l) == nextRune(input, l)

peek(input, l) == backup(input, next(input, l))

RECURSIVE scanRun(_, _, _)
\* The loop shared by lexVariable, lexIdentifier, lexSpace and lexNumber:
\* consume runes while they are in class, backing up over the first that is not.
scanRun(input, l, class) ==
  IF nextRune(input, l) = eof THEN l
  ELSE IF nextRune(input, l) \in class THEN scanRun(input, next(input, l), class)
  ELSE backup(input, next(input, l))

RECURSIVE scanString(_, _, _)
\* The loop of lexString; panicked is set when the input ends inside the string.
scanString(input, l, isEscape) ==
  LET r == nextRune(input, l)
      l1 == next(input, l)
  IN  IF r = eof THEN [l EXCEPT !.panicked = TRUE]
      ELSE IF r = "\\" THEN scanString(input, l1, TRUE)
      ELSE IF r = "\"" /\ ~isEscape THEN l1
      ELSE scanString(input, l1, FALSE)

Keywords ==
  [kw \in {<<"i", "f">>, <<"e", "l", "s", "e">>, <<"n", "i", "l">>,
           <<"e", "n", "d">>, <<"t", "r", "u", "e">>,
           <<"f", "a", "l", "s", "e">>, <<"i", "n">>,
           <<"r", "a", "n", "g", "e">>} |->
     CASE kw = <<"i", "f">> -> "if"
       [] kw = <<"e", "l", "s", "e">> -> "else"
       [] kw = <<"n", "i", "l">> -> "nil"
       [] kw = <<"e", "n", "d">> -> "end"
       [] kw = <<"t", "r", "u", "e">> -> "true"
       [] kw = <<"f", "a", "l", "s", "e">> -> "false"
       [] kw = <<"i", "n">> -> "in"
       [] OTHER -> "range"]

identifierKind(text) == IF text \in DOMAIN Keywords THEN Keywords[text] ELSE "ident"

SingleRuneKinds ==
  [r \in {"{", ".", "#", "-", "=", "!", "+", "*", "/", "%", ",", "(", ")",
          "[", "]", ":"} |->
     CASE r = "{" -> "openCurly"
       [] r = "." -> "dot"
       [] r = "#" -> "hash"
       [] r = "-" -> "minus"
       [] r = "=" -> "equal"
       [] r = "!" -> "bang"
       [] r = "+" -> "plus"
       [] r = "*" -> "asterisk"
       [] r = "/" -> "slash"
       [] r = "%" -> "percent"
       [] r = "," -> "comma"
       [] r = "(" -> "openParen"
       [] r = ")" -> "closeParen"
       [] r = "[" -> "openBracket"
       [] r = "]" -> "closeBracket"
       [] OTHER -> "colon"]

\* A state function returns the lexer and the state function to run next.
Then(l, state) == [l |-> l, state |-> state]

\* One application of a state function: lexText, lexLeftDelim, lexAction,
\* lexRightDelim, lexVariable, lexIdentifier, lexString, lexSpace, lexNumber.
\* The state after the last is "nil"; a panic ends the run as well.
stateFn(input, l, state) ==
  CASE state = "lexText" ->
         LET index == Index(Slice(input, l.start, Len(input)), leftDelim)
         IN  IF index >= 0
             THEN IF index > 0
                  THEN LET l1 == [l EXCEPT !.pos = l.start + index]
                           l2 == [l1 EXCEPT !.line = l1.line
                                    + CountNewlines(Slice(input, l1.start, l1.pos))]
                       IN  Then(emit(input, l2, "text"), "lexLeftDelim")
                  ELSE Then(l, "lexLeftDelim")
             ELSE LET l1 == IF l.start # Len(input)
                            THEN emit(input, [l EXCEPT !.pos = Len(input)], "text")
                            ELSE l
                  IN  Then(emit(input, l1, "eof"), "nil")
    [] state = "lexLeftDelim" ->
         Then(emit(input, [l EXCEPT !.pos = l.pos + Len(leftDelim)], "openDelim"),
              "lexAction")
    [] state = "lexAction" ->
         LET r == peekRune(input, l)
             l0 == peek(input, l)
         IN  IF r = "}" THEN Then(l0, "lexRightDelim")
             ELSE IF r \in DOMAIN SingleRuneKinds
             THEN Then(emit(input, next(input, l0), SingleRuneKinds[r]), "lexAction")
             ELSE IF r = "$" THEN Then(next(input, l0), "lexVariable")
             ELSE IF r = "\"" THEN Then(next(input, l0), "lexString")
             ELSE IF r # eof /\ IsSpace(r) THEN Then(l0, "lexSpace")
             ELSE IF r # eof /\ (IsLetter(r) \/ r = "_") THEN Then(l0, "lexIdentifier")
             ELSE IF r # eof /\ IsNumber(r) THEN Then(l0, "lexNumber")
             ELSE Then(emitError(peek(input, l0)), "nil")
    [] state = "lexRightDelim" ->
         IF ~HasPrefix(Slice(input, l.pos, Len(input)), rightDelim)
         THEN Then(emit(input, next(input, l), "closeCurly"), "lexAction")
         ELSE Then(emit(input, [l EXCEPT !.pos = l.pos + Len(rightDelim)], "closeDelim"),
                   "lexText")
    [] state = "lexVariable" ->
         Then(emit(input, scanRun(input, l, Letters \cup Digits \cup {"_"}), "variable"),
              "lexAction")
    [] state = "lexIdentifier" ->
         LET l1 == scanRun(input, l, Letters \cup Digits \cup {"_"})
         IN  Then(emit(input, l1, identifierKind(Slice(input, l1.start, l1.pos))),
                  "lexAction")
    [] state = "lexString" ->
         LET l1 == scanString(input, l, FALSE)
         IN  IF l1.panicked THEN Then(l1, "nil")
             ELSE Then(emit(input, l1, "string"), "lexAction")
    [] state = "lexSpace" ->
         Then(emit(input, scanRun(input, l, Spaces), "space"), "lexAction")
    [] OTHER ->
         Then(emit(input, scanRun(input, l, Digits), "number"), "lexAction")

RECURSIVE runFor(_, _, _)
\* n turns of the loop of Lexer.run, as two halves; the loop has ended once
\* the state is nil.
runFor(input, ls, n) ==
  IF n = 0 \/ ls.state = "nil" THEN ls
  ELSE IF n = 1 THEN stateFn(input, ls.l, ls.state)
  ELSE runFor(input, runFor(input, ls, n \div 2), n - (n \div 2))

\* Lexer.run: the loop from lexText until the state is nil.  A state
\* function other than the last consumes input on every second turn at the
\* latest, which bounds the turns.
run(input, l) == runFor(input, Then(l, "lexText"), 2 * Len(input) + 2).l

\* Lex: the lexer after run().
Lex(input) == run(input, NewLexer)

(***************************************************************************)
(* Parser                                                                  *)
(***************************************************************************)
Node(kind, value, children, startLine, endLine) ==
  [kind |-> kind, value |-> value, children |-> children,
   startLine |-> startLine, endLine |-> endLine]

\* A nil *Node.
NilNode == Node("<nil>", <<>>, <<>>, 0, 0)

\* The parser struct after construction in Parse; err holds the value of a
\* panic raised while parsing ("" when there was none).
NewParser == [pos |-> -1, err |-> ""]

Panic(p, msg) == IF p.err # "" THEN p ELSE [p EXCEPT !.err = msg]

\* Whether Tokens[i] exists.
InRange(toks, i) == i >= 0 /\ i < Len(toks)

\* Tokens[i], 0-based.
TokenAt(toks, i) == toks[i + 1]

\* The parser after the index check of p.peekn(n): indexing past the tokens
\* is a run-time panic.
checkn(toks, p, n) ==
  IF p.err # "" THEN p
  ELSE IF ~InRange(toks, p.pos + n) THEN Panic(p, "index out of range")
  ELSE p

\* p.peekn(n).Kind, where the index check has passed.
peeknKind(toks, p, n) ==
  IF p.err = "" /\ InRange(toks, p.pos + n) THEN TokenAt(toks, p.pos + n).kind
  ELSE "<none>"

\* p.peek().Kind
peekKind(toks, p) == peeknKind(toks, p, 1)

\* p.peek()
peekToken(toks, p) ==
  IF p.err = "" /\ InRange(toks, p.pos + 1) THEN TokenAt(toks, p.pos + 1)
  ELSE Token("<none>", <<>>, 0, 0)

\* p.next(): the parser after it and the token it returns.
nextToken(toks, p) ==
  IF p.err # "" THEN [p |-> p, tok |-> Token("<none>", <<>>, 0, 0)]
  ELSE IF ~InRange(toks, p.pos + 1)
  THEN [p |-> [pos |-> p.pos + 1, err |-> "index out of range"],
        tok |-> Token("<none>", <<>>, 0, 0)]
  ELSE [p |-> [p EXCEPT !.pos = p.pos + 1], tok |-> TokenAt(toks, p.pos + 1)]

RECURSIVE skipWhitespace(_, _)
skipWhitespace(toks, p) ==
  LET p1 == checkn(toks, p, 1)
  IN  IF p1.err # "" THEN p1
      ELSE IF peekKind(toks, p1) # "space" THEN p1
      ELSE skipWhitespace(toks, nextToken(toks, p1).p)

\* p.expect(kind): a token of another kind is a panic (panicWithMessage).
expect(toks, p, kind) ==
  LET n == nextToken(toks, p)
  IN  IF n.p.err # "" THEN n
      ELSE IF n.tok.kind # kind
      THEN [p |-> Panic(n.p, "unexpected token"), tok |-> n.tok]
      ELSE n

\* p.errorWithLoc: it reads p.peek() for the line, then panics.
errorWithLoc(toks, p, msg) == Panic(checkn(toks, p, 1), msg)

\* A parse function's result: the parser after it and the node it returns.
R(p, node) == [p |-> p, node |-> node]

\* The result of a parse function that returns a list of nodes.
RN(p, nodes) == [p |-> p, nodes |-> nodes]

\* A parse function that panicked returns nothing: only the parser, which
\* holds the panic, is left.
Failed(p) == [p |-> p, node |-> NilNode, nodes |-> <<>>]

\* Sequencing: rest runs on the parser p unless a panic is under way.
TryP(p, rest(_)) == IF p.err # "" THEN Failed(p) ELSE rest(p)

\* Sequencing: rest runs on the result r of a call unless the call panicked.
Try(r, rest(_)) == IF r.p.err # "" THEN Failed(r.p) ELSE rest(r)

parseVariable(toks, p) ==
  Try(nextToken(toks, p), LAMBDA n :
    IF n.tok.kind = "variable"
    THEN R(n.p, Node("variable", n.tok.value, <<>>, n.tok.startLine, n.tok.endLine))
    ELSE IF n.tok.kind = "ident"
    THEN R(n.p, Node("identifier", n.tok.value, <<>>, n.tok.startLine, n.tok.endLine))
    ELSE Failed(Panic(n.p, "unexpected token, expected variable or identifier")))

parseOperator(toks, p) ==
  Try(nextToken(toks, p), LAMBDA n :
    IF n.tok.kind \in {"equal", "bang"}
    THEN Try(expect(toks, n.p, "equal"), LAMBDA e :
           R(e.p, Node("operator", n.tok.value \o <<"=">>, <<>>,
                       n.tok.startLine, e.tok.endLine)))
    ELSE IF n.tok.kind \in {"openAngle", "closeAngle"}
    THEN TryP(checkn(toks, n.p, 1), LAMBDA c :
           IF peekKind(toks, c) = "equal"
           THEN Try(expect(toks, c, "equal"), LAMBDA e :
                  R(e.p, Node("operator", n.tok.value \o <<"=">>, <<>>,
                              n.tok.startLine, e.tok.endLine)))
           ELSE R(c, Node("operator", n.tok.value, <<>>,
                          n.tok.startLine, n.tok.endLine)))
    ELSE R(n.p, Node("operator", n.tok.value, <<>>, n.tok.startLine, n.tok.endLine)))

RECURSIVE parseMany(_, _, _)
RECURSIVE parseStatement(_, _)
RECURSIVE parseExpression(_, _, _)
RECURSIVE parsePostfix(_, _, _, _)
RECURSIVE parseCallArgs(_, _, _)
RECURSIVE parseLiteralOrAccess(_, _)
RECURSIVE parseIf(_, _)
RECURSIVE parseRange(_, _)
RECURSIVE parseBlock(_, _)
RECURSIVE parseMapPairs(_, _, _)
RECURSIVE parseMap(_, _)

\* parseMany: nodes is the list built so far by its loop.
parseMany(toks, p, nodes) ==
  TryP(checkn(toks, p, 1), LAMBDA c :
    CASE peekKind(toks, c) = "eof" -> RN(c, nodes)
      [] peekKind(toks, c) = "text" ->
           Try(nextToken(toks, c), LAMBDA n :
             parseMany(toks, n.p,
                       Append(nodes, Node("text", n.tok.value, <<>>,
                                          n.tok.startLine, n.tok.endLine))))
      [] peekKind(toks, c) = "openDelim" ->
           Try(nextToken(toks, c), LAMBDA n :
           TryP(skipWhitespace(toks, n.p), LAMBDA p1 :
             \* else and end signify the end of the current statement
             IF peekKind(toks, p1) \in {"else", "end"} THEN RN(p1, nodes)
             ELSE Try(parseStatement(toks, p1), LAMBDA st :
                  Try(expect(toks, skipWhitespace(toks, st.p), "closeDelim"), LAMBDA e :
                    parseMany(toks, e.p,
                              Append(nodes, Node("statement", <<>>, <<st.node>>,
                                                 n.tok.startLine, n.tok.endLine)))))))
      [] peekKind(toks, c) \in {"else", "end"} -> RN(c, nodes)
      [] OTHER -> Failed(errorWithLoc(toks, c, "unsupported token")))

\* Statements represent everything in a {{...}} block.
parseStatement(toks, p) ==
  TryP(skipWhitespace(toks, p), LAMBDA p1 :
    CASE peekKind(toks, p1) = "closeDelim" ->
           Try(nextToken(toks, p1), LAMBDA n : R(n.p, NilNode))
      [] peekKind(toks, p1) = "eof" -> Failed(Panic(p1, "unexpected EOF"))
      [] peekKind(toks, p1) \in {"openCurly", "ident", "variable", "number", "minus",
                                 "string", "bang"} ->
           parseExpression(toks, p1, TRUE)
      [] peekKind(toks, p1) = "nil" ->
           Try(nextToken(toks, p1), LAMBDA n :
             R(n.p, Node("nil", <<>>, <<>>, n.tok.startLine, n.tok.endLine)))
      [] peekKind(toks, p1) = "space" ->
           TryP(skipWhitespace(toks, p1), LAMBDA p2 : R(p2, NilNode))
      [] peekKind(toks, p1) = "if" -> parseIf(toks, p1)
      [] peekKind(toks, p1) = "range" -> parseRange(toks, p1)
      [] OTHER -> Failed(errorWithLoc(toks, p1, "unexpected token")))

\* The loop of parseExpression over the postfix forms .name, [expr] and
\* (args); root is rootNode, node the chain built so far.
parsePostfix(toks, p, root, node) ==
  TryP(checkn(toks, p, 1), LAMBDA c :
    CASE peekKind(toks, c) = "dot" ->
           Try(parseVariable(toks, expect(toks, c, "dot").p), LAMBDA v :
             parsePostfix(toks, v.p, root,
                          Node("access", <<>>, <<node, v.node>>,
                               v.node.startLine, v.node.endLine)))
      [] peekKind(toks, c) = "openBracket" ->
           Try(parseExpression(toks, expect(toks, c, "openBracket").p, TRUE), LAMBDA child :
           Try(expect(toks, child.p, "closeBracket"), LAMBDA e :
             parsePostfix(toks, e.p, root,
                          Node("bracket_access", <<>>, <<node, child.node>>,
                               root.startLine, 0))))
      [] peekKind(toks, c) = "openParen" ->
           Try(parseCallArgs(toks, expect(toks, c, "openParen").p, <<node>>), LAMBDA args :
           Try(expect(toks, args.p, "closeParen"), LAMBDA e :
             parsePostfix(toks, e.p, root,
                          Node("call", <<>>, args.nodes, root.startLine, 0))))
      [] OTHER -> R(c, node))

\* The argument loop of a call; children is Children so far.
parseCallArgs(toks, p, children) ==
  TryP(skipWhitespace(toks, p), LAMBDA p1 :
    IF peekKind(toks, p1) = "closeParen" THEN RN(p1, children)
    ELSE Try(parseExpression(toks, p1, TRUE), LAMBDA arg :
         TryP(checkn(toks, arg.p, 1), LAMBDA c :
           IF peekKind(toks, c) = "comma"
           THEN parseCallArgs(toks, expect(toks, c, "comma").p,
                              Append(children, arg.node))
           ELSE parseCallArgs(toks, c, Append(children, arg.node)))))

\* rootNode of parseExpression: the operand, wrapped in a Not after a bang.
notNode(wrapInNot, n) ==
  IF wrapInNot THEN Node("not", <<>>, <<n>>, n.startLine, n.endLine) ELSE n

\* The end of an expression, were a minus an operator whatever follows it.
endsExpressionAnyMinus(toks, p, allowOperator) ==
  CASE peekKind(toks, p) = "minus" -> FALSE
    [] peekKind(toks, p) = "bang" -> peeknKind(toks, p, 2) # "equal" \/ ~allowOperator
    [] peekKind(toks, p) = "equal" -> ~allowOperator
    [] peekKind(toks, p) \in {"plus", "slash", "asterisk", "percent",
                              "closeAngle", "openAngle"} -> FALSE
    [] OTHER -> TRUE

\* Whether parseExpression returns rootNode rather than reading an operator;
\* it protects against foo -1 vs foo - 1 and foo != bar vs foo !bar.
endsExpression(toks, p, allowOperator) ==
  CASE peekKind(toks, p) = "minus" -> peeknKind(toks, p, 2) # "space"
    [] peekKind(toks, p) = "bang" -> peeknKind(toks, p, 2) # "equal" \/ ~allowOperator
    [] peekKind(toks, p) = "equal" -> ~allowOperator
    [] peekKind(toks, p) \in {"plus", "slash", "asterisk", "percent",
                              "closeAngle", "openAngle"} -> FALSE
    [] OTHER -> TRUE

\* parses expressions, like: foo.bar.baz, foo != nil
parseExpression(toks, p, allowOperator) ==
  TryP(checkn(toks, p, 1), LAMBDA c0 :
  TryP(checkn(toks, IF peekKind(toks, c0) = "bang" THEN expect(toks, c0, "bang").p ELSE c0, 1),
       LAMBDA c1 :
  Try(IF peekKind(toks, c1) = "openCurly"
      THEN parseMap(toks, expect(toks, c1, "openCurly").p)
      ELSE parseLiteralOrAccess(toks, c1), LAMBDA first :
  TryP(skipWhitespace(toks, first.p), LAMBDA p2 :
  Try(IF peekKind(toks, p2) \in {"dot", "openParen", "openBracket"}
      THEN Try(parsePostfix(toks, p2, first.node, first.node), LAMBDA chain :
             R(skipWhitespace(toks, chain.p), chain.node))
      ELSE R(p2, first.node), LAMBDA chained :
  TryP(checkn(toks, chained.p, 1), LAMBDA p3 :
  TryP(IF peekKind(toks, p3) \in {"minus", "bang"} THEN checkn(toks, p3, 2) ELSE p3,
       LAMBDA p4 :
    IF endsExpression(toks, p4, allowOperator)
    THEN R(p4, notNode(peekKind(toks, c0) = "bang", chained.node))
    ELSE Try(parseOperator(toks, p4), LAMBDA operator :
         TryP(skipWhitespace(toks, operator.p), LAMBDA p5 :
         Try(parseExpression(toks, p5, FALSE), LAMBDA right :
           R(right.p,
             Node("infix", <<>>,
                  <<notNode(peekKind(toks, c0) = "bang", chained.node),
                    operator.node, right.node>>,
                  notNode(peekKind(toks, c0) = "bang", chained.node).startLine,
                  peekToken(toks, p5).endLine))))))))))))

parseLiteralOrAccess(toks, p) ==
  TryP(checkn(toks, p, 1), LAMBDA c :
    CASE peekKind(toks, c) = "minus" ->
           TryP(checkn(toks, c, 2), LAMBDA c2 :
             CASE peeknKind(toks, c2, 2) = "number" ->
                    Try(nextToken(toks, nextToken(toks, c2).p), LAMBDA intNode :
                    TryP(skipWhitespace(toks, intNode.p), LAMBDA p1 :
                      R(p1, Node("int", <<"-">> \o intNode.tok.value, <<>>,
                                 intNode.tok.startLine, intNode.tok.endLine))))
               [] peeknKind(toks, c2, 2) \in {"variable", "ident"} ->
                    TryP(skipWhitespace(toks, nextToken(toks, c2).p), LAMBDA p1 :
                    Try(parseExpression(toks, p1, TRUE), LAMBDA operand :
                      R(operand.p, Node("negate", <<>>, <<operand.node>>,
                                        peekToken(toks, p1).startLine,
                                        peekToken(toks, p1).endLine))))
               [] OTHER -> Failed(Panic(c2, "Unexpected token -")))
      [] peekKind(toks, c) \in {"variable", "ident"} -> parseVariable(toks, c)
      [] peekKind(toks, c) \in {"nil", "true", "false", "string", "number"} ->
           Try(nextToken(toks, c), LAMBDA n :
           TryP(skipWhitespace(toks, n.p), LAMBDA p1 :
             R(p1, Node(IF n.tok.kind = "number" THEN "int" ELSE n.tok.kind,
                        n.tok.value, <<>>, n.tok.startLine, n.tok.endLine))))
      [] OTHER -> Failed(Panic(c, "Unexpected identifier")))

\* parseBlock, were the nodes of the block put in a Statement node.
parseBlockAsStatement(toks, p) ==
  TryP(checkn(toks, p, 1), LAMBDA c :
  Try(parseMany(toks, c, <<>>), LAMBDA many :
    R(many.p, Node("statement", <<>>, many.nodes,
                   peekToken(toks, c).startLine, peekToken(toks, c).endLine))))

parseBlock(toks, p) ==
  TryP(checkn(toks, p, 1), LAMBDA c :
  Try(parseMany(toks, c, <<>>), LAMBDA many :
    R(many.p, Node("block", <<>>, many.nodes,
                   peekToken(toks, c).startLine, peekToken(toks, c).endLine))))

parseIf(toks, p) ==
  TryP(checkn(toks, p, 1), LAMBDA c :
  TryP(skipWhitespace(toks, expect(toks, expect(toks, c, "if").p, "space").p), LAMBDA p2 :
  Try(parseExpression(toks, p2, TRUE), LAMBDA cond :
  \* happy path (if case)
  Try(parseBlock(toks, expect(toks, skipWhitespace(toks, cond.p), "closeDelim").p),
      LAMBDA then :
  TryP(skipWhitespace(toks, then.p), LAMBDA p4 :
    IF peekKind(toks, p4) = "else"
    \* sad path (else case)
    THEN Try(parseBlock(toks, expect(toks, skipWhitespace(toks, expect(toks, p4, "else").p),
                                     "closeDelim").p), LAMBDA else :
         Try(expect(toks, skipWhitespace(toks, else.p), "end"), LAMBDA e :
           R(e.p, Node("if", <<>>, <<cond.node, then.node, else.node>>,
                       peekToken(toks, c).startLine, peekToken(toks, c).endLine))))
    ELSE Try(expect(toks, p4, "end"), LAMBDA e :
           R(e.p, Node("if", <<>>, <<cond.node, then.node>>,
                       peekToken(toks, c).startLine, peekToken(toks, c).endLine))))))))

parseRange(toks, p) ==
  Try(expect(toks, p, "range"), LAMBDA rangeToken :
  Try(expect(toks, skipWhitespace(toks, rangeToken.p), "variable"), LAMBDA var1Token :
  TryP(skipWhitespace(toks, var1Token.p), LAMBDA p1 :
  Try(IF peekKind(toks, p1) = "comma"
      THEN expect(toks, skipWhitespace(toks, nextToken(toks, p1).p), "variable")
      ELSE [p |-> p1, tok |-> Token("<none>", <<>>, 0, 0)], LAMBDA var2Token :
  TryP(skipWhitespace(toks, expect(toks, skipWhitespace(toks, var2Token.p), "in").p),
       LAMBDA p3 :
  Try(parseExpression(toks, p3, TRUE), LAMBDA coll :
  Try(parseBlock(toks, expect(toks, coll.p, "closeDelim").p), LAMBDA body :
  Try(expect(toks, skipWhitespace(toks, body.p), "end"), LAMBDA e :
    R(e.p,
      Node("range", <<>>,
           <<Node("variable", var1Token.tok.value, <<>>,
                  rangeToken.tok.startLine, rangeToken.tok.endLine)>>
           \o (IF peekKind(toks, p1) = "comma"
               THEN <<Node("variable", var2Token.tok.value, <<>>,
                           var2Token.tok.startLine, var2Token.tok.endLine)>>
               ELSE <<>>)
           \o <<coll.node, body.node>>,
           rangeToken.tok.startLine, 0))))))))))

\* The loop of parseMap; pairs is the list built so far.
parseMapPairs(toks, p, pairs) ==
  TryP(checkn(toks, p, 1), LAMBDA c :
    CASE peekKind(toks, c) = "closeCurly" -> RN(c, pairs)
      [] peekKind(toks, c) = "eof" -> Failed(errorWithLoc(toks, c, "unexpected EOF"))
      [] OTHER ->
           Try(expect(toks, c, "ident"), LAMBDA key :
           Try(parseLiteralOrAccess(toks, skipWhitespace(toks, expect(toks, key.p, "colon").p)),
               LAMBDA value :
           \* check for comma
           TryP(skipWhitespace(toks, value.p), LAMBDA p2 :
           TryP(IF peekKind(toks, p2) = "comma"
                THEN skipWhitespace(toks, expect(toks, p2, "comma").p)
                ELSE p2, LAMBDA p3 :
             parseMapPairs(toks, p3,
                           Append(pairs, Node("pair", <<>>,
                                              <<Node("identifier", key.tok.value, <<>>,
                                                     key.tok.startLine, key.tok.endLine),
                                                value.node>>,
                                              key.tok.startLine, value.node.endLine))))))))

parseMap(toks, p) ==
  TryP(skipWhitespace(toks, p), LAMBDA p1 :
  Try(parseMapPairs(toks, p1, <<>>), LAMBDA pairs :
  Try(expect(toks, skipWhitespace(toks, pairs.p), "closeCurly"), LAMBDA mapEnd :
    R(mapEnd.p, Node("map", <<>>, pairs.nodes,
                     peekToken(toks, p1).startLine, mapEnd.tok.endLine)))))

\* What the recover() of Parse makes of the outcome of parseMany.
recovered(many) ==
  IF many.p.err # "" THEN [err |-> many.p.err, ast |-> NilNode]
  ELSE [err |-> "", ast |-> Node("root", <<>>, many.nodes, 0, 0)]

\* Parse: the AST, or the error its recover() makes of a panic.
Parse(toks) == recovered(parseMany(toks, NewParser, <<>>))

(***************************************************************************)
(* Runtime values                                                          *)
(*                                                                         *)
(* A value is a record whose field t names its Go type: "nil" is the nil   *)
(* interface, "ptr" a pointer (isNil: a nil pointer), "Safe" the bat.Safe  *)
(* string type, "stringer" a host struct with a String() method, "func" a  *)
(* host function, the numeric kinds carry n.  Only integer numbers are     *)
(* values here: floating-point and complex numbers are left out.           *)
(***************************************************************************)
NilV == [t |-> "nil"]

BoolV(b) == [t |-> "bool", b |-> b]

NumV(kind, n) == [t |-> kind, n |-> n]

IntV(n) == NumV("int", n)

StrV(s) == [t |-> "string", s |-> s]

SafeV(s) == [t |-> "Safe", s |-> s]

StringerV(s) == [t |-> "stringer", s |-> s]

SliceV(elems) == [t |-> "slice", elems |-> elems, isNil |-> FALSE]

NilSliceV == [t |-> "slice", elems |-> <<>>, isNil |-> TRUE]

\* A map[string]any: m is a function from keys (strings) to values.
MapV(m) == [t |-> "map", m |-> m, isNil |-> FALSE]

NilMapV == [t |-> "map", m |-> <<>>, isNil |-> TRUE]

NilPtrV == [t |-> "ptr", isNil |-> TRUE]

FuncV(name) == [t |-> "func", name |-> name, isNil |-> FALSE]

\* A channel the data holds: id names the channel, buf and closed are what
\* it holds and whether it is closed when Execute is called.
ChanV(id, buf, closed) ==
  [t |-> "chan", id |-> id, buf |-> buf, closed |-> closed, isNil |-> FALSE]

\* A nil channel.
NilChanV == [t |-> "chan", id |-> "nil", buf |-> <<>>, closed |-> FALSE, isNil |-> TRUE]

SignedKinds == {"int", "int8", "int16", "int32", "int64"}

UnsignedKinds == {"uint", "uint8", "uint16", "uint32", "uint64"}

FloatKinds == {"float32", "float64"}

NumericKinds == SignedKinds \cup UnsignedKinds \cup FloatKinds

\* reflect.ValueOf(v).Kind()
KindOf(v) ==
  CASE v.t = "nil" -> "invalid"
    [] v.t = "Safe" -> "string"
    [] v.t = "stringer" -> "struct"
    [] OTHER -> v.t

\* The empty map[string]any.
EmptyMap == <<>>

\* m[k] of a Go map whose missing keys read as the nil interface.
MapGet(m, k) == IF k \in DOMAIN m THEN m[k] ELSE NilV

\* m[k] = v, were the assignment lost.
MapSetLost(m, k, v) == m

\* m[k] = v
MapSet(m, k, v) == [x \in DOMAIN m \cup {k} |-> IF x = k THEN v ELSE m[x]]

(***************************************************************************)
(* Conversions between numbers and text                                    *)
(***************************************************************************)
DigitChars == <<"0", "1", "2", "3", "4", "5", "6", "7", "8", "9">>

RECURSIVE ItoaNat(_)
ItoaNat(n) ==
  IF n < 10 THEN <<DigitChars[n + 1]>>
  ELSE ItoaNat(n \div 10) \o <<DigitChars[(n % 10) + 1]>>

\* strconv.Itoa, and the %v rendering of an integer.
Itoa(n) == IF n < 0 THEN <<"-">> \o ItoaNat(-n) ELSE ItoaNat(n)

DigitValue(c) == CHOOSE d \in 0..9 : DigitChars[d + 1] = c

RECURSIVE AtoiNat(_, _)
AtoiNat(s, acc) ==
  IF s = <<>> THEN acc ELSE AtoiNat(Tail(s), acc * 10 + DigitValue(Head(s)))

\* strconv.Atoi with the error dropped: 0 for text that is no integer.
Atoi(s) ==
  LET neg == s # <<>> /\ Head(s) = "-"
      body == IF s # <<>> /\ Head(s) \in {"-", "+"} THEN Tail(s) ELSE s
  IN  IF body = <<>> \/ \E i \in 1..Len(body) : body[i] \notin Digits THEN 0
      ELSE IF neg THEN -AtoiNat(body, 0) ELSE AtoiNat(body, 0)

RECURSIVE Concat(_)
\* The concatenation of a sequence of strings.
Concat(ss) == IF ss = <<>> THEN <<>> ELSE Head(ss) \o Concat(Tail(ss))

RECURSIVE SplitLines(_)
\* strings.Split(s, "\n")
SplitLines(s) ==
  LET i == Index(s, <<"\n">>)
  IN  IF i < 0 THEN <<s>>
      ELSE <<Slice(s, 0, i)>> \o SplitLines(Slice(s, i + 1, Len(s)))

(***************************************************************************)
(* Ordering of strings (the order mapsort sorts string keys by)            *)
(***************************************************************************)
\* The characters in byte order.
CharOrder ==
  <<"\t", "\n", "\r", " ", "!", "\"", "#", "$", "%", "&", "'", "(", ")", "*",
    "+", ",", "-", ".", "/", "0", "1", "2", "3", "4", "5", "6", "7", "8", "9",
    ":", ";", "<", "=", ">", "?", "[", "\\", "]", "_",
    "a", "b", "c", "d", "e", "f", "g", "h", "i", "j", "k", "l", "m", "n",
    "o", "p", "q", "r", "s", "t", "u", "v", "w", "x", "y", "z", "{", "}">>

CharCode(c) == CHOOSE i \in 1..Len(CharOrder) : CharOrder[i] = c

RECURSIVE StrLess(_, _)
\* a < b for Go strings
StrLess(a, b) ==
  IF b = <<>> THEN FALSE
  ELSE IF a = <<>> THEN TRUE
  ELSE IF Head(a) = Head(b) THEN StrLess(Tail(a), Tail(b))
  ELSE CharCode(Head(a)) < CharCode(Head(b))

(***************************************************************************)
(* Escape functions                                                        *)
(***************************************************************************)
\* html.EscapeString on one character.
HTMLEscapeChar(c) ==
  CASE c = "<" -> <<"&", "l", "t", ";">>
    [] c = ">" -> <<"&", "g", "t", ";">>
    [] c = "&" -> <<"&", "a", "m", "p", ";">>
    [] c = "'" -> <<"&", "#", "3", "9", ";">>
    [] c = "\"" -> <<"&", "#", "3", "4", ";">>
    [] OTHER -> <<c>>

\* HTMLEscape
HTMLEscape(s) == Concat([i \in 1..Len(s) |-> HTMLEscapeChar(s[i])])

\* NoEscape returns text as-is.
NoEscape(s) == s

\* The escape functions a Template is built with, by name.
EscapeFuncs == {"HTMLEscape", "NoEscape"}

\* escapeFunc(s)
Escape(fn, s) == IF fn = "HTMLEscape" THEN HTMLEscape(s) ELSE NoEscape(s)

(***************************************************************************)
(* Panics                                                                  *)
(*                                                                         *)
(* kind is the Go type of the panic value: "string" (panic(msg)) or        *)
(* "error" (a run-time error, a reflect.ValueError, a panic(err)).         *)
(***************************************************************************)
PanicValue(kind, msg, name, line, excerpt) ==
  [kind |-> kind, msg |-> msg, name |-> name, line |-> line, excerpt |-> excerpt]

NoPanic == PanicValue("none", "", <<>>, 0, <<>>)

StringPanic(msg) == PanicValue("string", msg, <<>>, 0, <<>>)

ErrorPanic(msg) == PanicValue("error", msg, <<>>, 0, <<>>)

\* Template.panicWithTrace: the message, the node's starting line and the
\* lines of the source it spans; slicing lines past its bounds is itself a
\* run-time panic.  name is the name the message quotes, if any.
panicWithTrace(t, n, msg, name) ==
  LET lines == SplitLines(t.raw)
      endLine == IF n.endLine = 0 THEN n.startLine ELSE n.endLine
  IN  IF n.startLine - 1 < 0 \/ n.startLine - 1 > endLine \/ endLine > Len(lines)
      THEN ErrorPanic("slice bounds out of range")
      ELSE PanicValue("string", msg, name, n.startLine,
                      SubSeq(lines, n.startLine, endLine))

\* The result of evaluating an expression: the value, the panic raised
\* instead (NoPanic when none), and the arguments the escape function was
\* called with on the way, in call order.
Ok(v, esc) == [v |-> v, panic |-> NoPanic, esc |-> esc]

Raise(pv, esc) == [v |-> NilV, panic |-> pv, esc |-> esc]

(***************************************************************************)
(* compare.go and its later form with conversion                           *)
(***************************************************************************)
isNil(v) ==
  IF KindOf(v) = "invalid" THEN TRUE
  ELSE IF KindOf(v) \in {"chan", "func", "interface", "map", "ptr", "slice"} THEN v.isNil
  ELSE FALSE

\* isTruthy, were only the boolean true truthy.
isTruthyStrict(v) == v = BoolV(TRUE)

isTruthy(v) ==
  IF isNil(v) THEN FALSE
  ELSE IF KindOf(v) = "bool" THEN v.b
  ELSE IF KindOf(v) = "invalid" THEN FALSE
  ELSE TRUE

\* Whether Go's == on two interfaces holding values of one type panics: the
\* type is not comparable.
Uncomparable(v) == v.t \in {"slice", "map", "func"}

\* The value of an arithmetic result, or of a conversion, in its Go type:
\* the 8 and 16 bit kinds wrap around.
WrapTo(kind, n) ==
  CASE kind = "int8" -> ((n + 128) % 256) - 128
    [] kind = "uint8" -> n % 256
    [] kind = "int16" -> ((n + 32768) % 65536) - 32768
    [] kind = "uint16" -> n % 65536
    [] OTHER -> n

\* reflect's Type.ConvertibleTo between the types of the model.
ConvertibleTo(from, to) ==
  \/ from = to
  \/ from \in NumericKinds /\ to \in NumericKinds
  \/ from \in SignedKinds \cup UnsignedKinds /\ to \in {"string", "Safe"}
  \/ from \in {"string", "Safe"} /\ to \in {"string", "Safe"}

\* The text of string(rune(n)) for the runes the model names.
RuneString(n) ==
  IF n >= 48 /\ n <= 57 THEN <<DigitChars[n - 47]>> ELSE <<"\\uFFFD">>

\* reflect.Value.Convert, where ConvertibleTo holds.
Convert(v, to) ==
  IF v.t = to THEN v
  ELSE IF to \in NumericKinds THEN NumV(to, WrapTo(to, v.n))
  ELSE IF v.t \in {"string", "Safe"} THEN [t |-> to, s |-> v.s]
  ELSE [t |-> to, s |-> RuneString(v.n)]

\* left.Interface() == right.Interface(): a panic when the common type is
\* not comparable.
InterfaceEq(l, r) ==
  IF l.t # r.t THEN Ok(BoolV(FALSE), <<>>)
  ELSE IF Uncomparable(l) THEN Raise(ErrorPanic("comparing uncomparable type"), <<>>)
  ELSE Ok(BoolV(l = r), <<>>)

compare(left, right) ==
  IF isNil(left) /\ isNil(right) THEN Ok(BoolV(TRUE), <<>>)
  ELSE IF KindOf(left) # "invalid" /\ KindOf(right) # "invalid"
  THEN IF left.t # right.t /\ ConvertibleTo(right.t, left.t)
       THEN InterfaceEq(left, Convert(right, left.t))
       ELSE InterfaceEq(left, right)
  ELSE Ok(BoolV(FALSE), <<>>)

genericType(v) ==
  CASE KindOf(v) \in SignedKinds -> "coreInt"
    [] KindOf(v) \in UnsignedKinds -> "coreUint"
    [] KindOf(v) \in FloatKinds -> "coreFloat"
    [] OTHER -> "coreInvalid"

\* A uint64: n when wrapped is 0, 2^64 + n (n negative) when it is 1.
Uint64(wrapped, n) == [wrapped |-> wrapped, n |-> n]

\* uint64(x) of an int64 x: a negative x wraps around.
uint64Signed(x) == IF x < 0 THEN Uint64(1, x) ELSE Uint64(0, x)

\* < on uint64.
Uint64Less(a, b) == a.wrapped < b.wrapped \/ (a.wrapped = b.wrapped /\ a.n < b.n)

\* What lessThan returns: the boolean and the error ("" for nil).
Less(b, err) == [b |-> b, err |-> err]

\* lessThan(leftValue, rightValue); the cases with a float operand are
\* left out with the floating-point numbers.
lessThan(left, right) ==
  LET lKind == KindOf(left)
      rKind == KindOf(right)
      lCore == genericType(left)
      rCore == genericType(right)
  IN  IF lKind = rKind
      THEN IF lKind \in SignedKinds \cup UnsignedKinds THEN Less(left.n < right.n, "")
           ELSE Less(FALSE, "can't compare type")
      ELSE IF lCore = "coreInt" /\ rCore = "coreUint"
      THEN Less(Uint64Less(uint64Signed(left.n), Uint64(0, right.n)), "")
      ELSE IF lCore = "coreUint" /\ rCore = "coreInt"
      THEN Less(Uint64Less(Uint64(0, left.n), uint64Signed(right.n)), "")
      ELSE Less(FALSE, "can't compare types")

(***************************************************************************)
(* maths.go                                                                *)
(***************************************************************************)
\* Integer division truncated toward zero, as Go's / on integers.
Quot(a, b) ==
  IF (a >= 0) = (b >= 0)
  THEN (IF a >= 0 THEN a ELSE -a) \div (IF b >= 0 THEN b ELSE -b)
  ELSE -((IF a >= 0 THEN a ELSE -a) \div (IF b >= 0 THEN b ELSE -b))

\* Go's % on integers: the remainder has the sign of the dividend.
Rem(a, b) == a - b * Quot(a, b)

\* The check and the switch shared by subtract, multiply, divide and
\* modulo: a must be convertible to b's type, and the operation is done by
\* asserting both operands to the type of b.
arith(op, a, b) ==
  IF KindOf(a) = "invalid" \/ KindOf(b) = "invalid"
  THEN Raise(ErrorPanic("reflect: call of reflect.Value.Type on zero Value"), <<>>)
  ELSE IF ~ConvertibleTo(a.t, b.t)
  THEN Raise(StringPanic("can't convert type"), <<>>)
  ELSE IF b.t \in SignedKinds \cup UnsignedKinds
  THEN IF a.t # b.t
       THEN Raise(ErrorPanic("interface conversion"), <<>>)
       ELSE IF op \in {"/", "%"} /\ b.n = 0
       THEN Raise(ErrorPanic("integer divide by zero"), <<>>)
       ELSE Ok(NumV(b.t, WrapTo(b.t, CASE op = "-" -> a.n - b.n
                                      [] op = "+" -> a.n + b.n
                                      [] op = "*" -> a.n * b.n
                                      [] op = "/" -> Quot(a.n, b.n)
                                      [] OTHER -> Rem(a.n, b.n))), <<>>)
  ELSE Raise(StringPanic("can't apply the operator to the kinds"), <<>>)

subtract(a, b) == arith("-", a, b)

multiply(a, b) == arith("*", a, b)

divide(a, b) == arith("/", a, b)

modulo(a, b) == arith("%", a, b)

\* The operand of a concatenation, were a Safe operand escaped like any
\* other.
addOperandAll(v, escapeFunc) == [s |-> Escape(escapeFunc, v.s), esc |-> <<v.s>>]

\* The escaped text of one operand of a string concatenation, with the
\* calls of the escape function it took.
addOperand(v, escapeFunc) ==
  IF v.t # "Safe" THEN [s |-> Escape(escapeFunc, v.s), esc |-> <<v.s>>]
  ELSE [s |-> v.s, esc |-> <<>>]

add(a, b, escapeFunc) ==
  IF KindOf(a) = "invalid" \/ KindOf(b) = "invalid"
  THEN Raise(ErrorPanic("reflect: call of reflect.Value.Type on zero Value"), <<>>)
  ELSE IF ~ConvertibleTo(a.t, b.t)
  THEN Raise(StringPanic("can't convert type"), <<>>)
  ELSE IF KindOf(a) = "string"
  THEN LET left == addOperand(a, escapeFunc)
           right == addOperand(b, escapeFunc)
       IN  Ok(SafeV(left.s \o right.s), left.esc \o right.esc)
  ELSE arith("+", a, b)

(***************************************************************************)
(* Output stringification                                                  *)
(***************************************************************************)
RECURSIVE SortedKeys(_)
\* The keys of a set of strings in ascending order.
SortedKeys(keys) ==
  IF keys = {} THEN <<>>
  ELSE LET least == CHOOSE k \in keys : \A o \in keys \ {k} : StrLess(k, o)
       IN  <<least>> \o SortedKeys(keys \ {least})

RECURSIVE JoinSpace(_)
JoinSpace(ss) ==
  IF ss = <<>> THEN <<>>
  ELSE IF Len(ss) = 1 THEN Head(ss)
  ELSE Head(ss) \o <<" ">> \o JoinSpace(Tail(ss))

RECURSIVE FormatV(_)
\* fmt.Sprintf("%v", v)
FormatV(v) ==
  CASE v.t = "nil" -> <<"<", "n", "i", "l", ">">>
    [] v.t = "bool" -> IF v.b THEN <<"t", "r", "u", "e">> ELSE <<"f", "a", "l", "s", "e">>
    [] v.t \in NumericKinds -> Itoa(v.n)
    [] v.t \in {"string", "Safe", "stringer"} -> v.s
    [] v.t = "ptr" -> <<"<", "n", "i", "l", ">">>
    [] v.t = "chan" /\ v.isNil -> <<"<", "n", "i", "l", ">">>
    [] v.t = "slice" ->
         <<"[">> \o JoinSpace([i \in 1..Len(v.elems) |-> FormatV(v.elems[i])]) \o <<"]">>
    [] v.t = "map" ->
         LET keys == SortedKeys(DOMAIN v.m)
         IN  <<"m", "a", "p", "[">>
             \o JoinSpace([i \in 1..Len(keys) |-> keys[i] \o <<":">> \o FormatV(v.m[keys[i]])])
             \o <<"]">>
    [] OTHER -> <<"0", "x", "1">>

\* valueToString, were no value escaped.
valueToStringRaw(v, escape) ==
  IF v.t = "nil" THEN [s |-> <<>>, esc |-> <<>>] ELSE [s |-> FormatV(v), esc |-> <<>>]

\* valueToString: the text written for v, and the arguments of the calls of
\* escape it made.
valueToString(v, escape) ==
  IF v.t = "stringer" THEN [s |-> Escape(escape, v.s), esc |-> <<v.s>>]
  ELSE IF v.t = "Safe" THEN [s |-> v.s, esc |-> <<>>]
  ELSE IF v.t = "string" THEN [s |-> Escape(escape, v.s), esc |-> <<v.s>>]
  ELSE IF v.t = "nil" THEN [s |-> <<>>, esc |-> <<>>]
  ELSE [s |-> Escape(escape, FormatV(v)), esc |-> <<FormatV(v)>>]

(***************************************************************************)
(* Helper functions                                                        *)
(***************************************************************************)
\* The helpers the Template is built with (WithHelpers): len and safe as
\* the engine defines them, lt a helper that returns the text "<", boom a
\* helper that panics.
HelperNames == {<<"l", "e", "n">>, <<"s", "a", "f", "e">>, <<"l", "t">>,
                <<"b", "o", "o", "m">>}

Helpers == [name \in HelperNames |-> FuncV(name)]

\* toCall.Call(args)[0].Interface(): the result of the host function, or
\* the panic reflect or the function itself raises.
callFunc(fn, args) ==
  IF KindOf(fn) # "func"
  THEN Raise(ErrorPanic("reflect: call of reflect.Value.Call on non-function"), <<>>)
  ELSE CASE fn.name = <<"l", "e", "n">> ->
              IF Len(args) # 1
              THEN Raise(StringPanic("reflect: Call with wrong number of input arguments"), <<>>)
              ELSE LET v == args[1]
                   IN  IF KindOf(v) = "slice" THEN Ok(IntV(Len(v.elems)), <<>>)
                       ELSE IF KindOf(v) = "map" THEN Ok(IntV(Cardinality(DOMAIN v.m)), <<>>)
                       ELSE IF KindOf(v) = "string" THEN Ok(IntV(Len(v.s)), <<>>)
                       ELSE Raise(ErrorPanic("reflect: call of reflect.Value.Len"), <<>>)
         [] fn.name = <<"s", "a", "f", "e">> ->
              IF Len(args) # 1
              THEN Raise(StringPanic("reflect: Call with wrong number of input arguments"), <<>>)
              ELSE IF args[1].t # "string"
              THEN Raise(StringPanic("reflect: Call using wrong type as type string"), <<>>)
              ELSE Ok(SafeV(args[1].s), <<>>)
         [] fn.name = <<"l", "t">> ->
              IF Len(args) # 0
              THEN Raise(StringPanic("reflect: Call with wrong number of input arguments"), <<>>)
              ELSE Ok(StrV(<<"<">>), <<>>)
         [] OTHER -> Raise(StringPanic("boom"), <<>>)

\* The closure around the call, had it no deferred function.
callRecoverNone(t, n, pv) == pv

\* The deferred function of the closure around toCall.Call: the recovered
\* panic pv is raised again by panicWithTrace on the callee's node, with a
\* message that quotes the callee's name.
callRecover(t, n, pv) ==
  panicWithTrace(t, n.children[1], "error calling function", n.children[1].value)

(***************************************************************************)
(* Template.access: the value of an expression                             *)
(***************************************************************************)
ZeroValuePanic == ErrorPanic("reflect: call of reflect.Value.Interface on zero Value")

\* rootVal.MapIndex(key).Interface()
MapIndex(root, key) ==
  IF KindOf(key) = "invalid"
  THEN Raise(ErrorPanic("reflect: call of reflect.Value.Type on zero Value"), <<>>)
  ELSE IF key.t # "string"
  THEN Raise(StringPanic("reflect.Value.MapIndex: value is not assignable to type string"), <<>>)
  ELSE IF key.s \in DOMAIN root.m THEN Ok(root.m[key.s], <<>>)
  ELSE Raise(ZeroValuePanic, <<>>)

\* rootVal.Index(i).Interface()
SliceIndex(root, i) ==
  IF i < 0 \/ i >= Len(root.elems)
  THEN Raise(StringPanic("reflect: slice index out of range"), <<>>)
  ELSE Ok(root.elems[i + 1], <<>>)

RECURSIVE access(_, _, _, _)
RECURSIVE accessArgs(_, _, _, _)
RECURSIVE accessPairs(_, _, _, _, _)

\* The arguments of a call, evaluated left to right: the values, or the
\* first panic.
accessArgs(t, args, data, vars) ==
  IF args = <<>> THEN [vs |-> <<>>, panic |-> NoPanic, esc |-> <<>>]
  ELSE LET first == access(t, Head(args), data, vars)
       IN  IF first.panic # NoPanic
           THEN [vs |-> <<>>, panic |-> first.panic, esc |-> first.esc]
           ELSE LET rest == accessArgs(t, Tail(args), data, vars)
                IN  [vs |-> <<first.v>> \o rest.vs, panic |-> rest.panic,
                     esc |-> first.esc \o rest.esc]

\* The loop of the KindMap case: m is the map built so far.
accessPairs(t, pairs, data, vars, m) ==
  IF pairs = <<>> THEN Ok(MapV(m), <<>>)
  ELSE LET child == Head(pairs)
           value == access(t, child.children[2], data, vars)
       IN  IF value.panic # NoPanic THEN value
           ELSE IF KindOf(value.v) = "invalid" THEN Raise(ZeroValuePanic, value.esc)
           ELSE LET rest == accessPairs(t, Tail(pairs), data, vars,
                                        MapSet(m, child.children[1].value, value.v))
                IN  [rest EXCEPT !.esc = value.esc \o rest.esc]

\* access(n, data, helpers, vars).  The infix cases "<", ">", "<=" and ">="
\* of bat.go are left out: lexAction has no case for the runes < and >, so
\* no template reaches them.
access(t, n, data, vars) ==
  CASE n.kind = "call" ->
         LET toCall == access(t, n.children[1], data, vars)
         IN  IF toCall.panic # NoPanic THEN toCall
             ELSE LET args == accessArgs(t, Tail(n.children), data, vars)
                  IN  IF args.panic # NoPanic
                      THEN Raise(args.panic, toCall.esc \o args.esc)
                      ELSE LET r == callFunc(toCall.v, args.vs)
                           IN  IF r.panic # NoPanic
                               THEN Raise(callRecover(t, n, r.panic),
                                          toCall.esc \o args.esc)
                               ELSE Ok(r.v, toCall.esc \o args.esc)
    [] n.kind = "negate" ->
         LET value == access(t, n.children[1], data, vars)
         IN  IF value.panic # NoPanic THEN value
             ELSE IF KindOf(value.v) \in {"int", "int16", "int32", "int64"}
             THEN Ok(NumV(value.v.t, WrapTo(value.v.t, value.v.n * (-1))), value.esc)
             ELSE Raise(panicWithTrace(t, n, "can't negate type", <<>>), value.esc)
    [] n.kind = "not" ->
         LET value == access(t, n.children[1], data, vars)
         IN  IF value.panic # NoPanic THEN value
             ELSE Ok(BoolV(value.v = NilV \/ value.v = BoolV(FALSE)), value.esc)
    [] n.kind = "true" -> Ok(BoolV(TRUE), <<>>)
    [] n.kind = "false" -> Ok(BoolV(FALSE), <<>>)
    [] n.kind = "nil" -> Ok(NilV, <<>>)
    [] n.kind = "int" -> Ok(IntV(Atoi(n.value)), <<>>)
    [] n.kind = "infix" ->
         LET left == access(t, n.children[1], data, vars)
         IN  IF left.panic # NoPanic THEN left
             ELSE LET right == access(t, n.children[3], data, vars)
                      op == n.children[2].value
                      esc == left.esc \o right.esc
                      r == CASE op = <<"!", "=">> ->
                                  LET c == compare(left.v, right.v)
                                  IN  IF c.panic # NoPanic THEN c ELSE Ok(BoolV(~c.v.b), <<>>)
                             [] op = <<"=", "=">> -> compare(left.v, right.v)
                             [] op = <<"-">> -> subtract(left.v, right.v)
                             [] op = <<"+">> -> add(left.v, right.v, t.escapeFunc)
                             [] op = <<"*">> -> multiply(left.v, right.v)
                             [] op = <<"/">> -> divide(left.v, right.v)
                             [] op = <<"%">> -> modulo(left.v, right.v)
                             [] OTHER -> Raise(panicWithTrace(t, n, "Unsupported operator", op), <<>>)
                  IN  IF right.panic # NoPanic THEN Raise(right.panic, esc)
                      ELSE [r EXCEPT !.esc = esc \o r.esc]
    [] n.kind = "identifier" ->
         IF n.value \in DOMAIN data THEN Ok(data[n.value], <<>>)
         ELSE IF n.value \in DOMAIN t.helpers THEN Ok(t.helpers[n.value], <<>>)
         ELSE Ok(NilV, <<>>)
    [] n.kind = "variable" -> Ok(MapGet(vars, n.value), <<>>)
    [] n.kind = "map" -> accessPairs(t, n.children, data, vars, EmptyMap)
    [] n.kind = "bracket_access" ->
         LET root == access(t, n.children[1], data, vars)
         IN  IF root.panic # NoPanic THEN root
             ELSE LET accessor == access(t, n.children[2], data, vars)
                      esc == root.esc \o accessor.esc
                      r == IF KindOf(root.v) = "map" THEN MapIndex(root.v, accessor.v)
                           ELSE IF KindOf(root.v) = "slice"
                           THEN IF KindOf(accessor.v) \in
                                     {"int", "int16", "int32", "int64",
                                      "uint", "uint16", "uint32", "uint64"}
                                THEN SliceIndex(root.v, accessor.v.n)
                                ELSE Raise(panicWithTrace(t, n, "can't index", <<>>), <<>>)
                           ELSE Raise(panicWithTrace(t, n, "cannot index non-map/non-slice", <<>>), <<>>)
                  IN  IF accessor.panic # NoPanic THEN Raise(accessor.panic, esc)
                      ELSE [r EXCEPT !.esc = esc]
    [] n.kind = "access" ->
         LET root == access(t, n.children[1], data, vars)
             propName == n.children[2].value
         IN  IF root.panic # NoPanic THEN root
             ELSE IF root.v = NilV
             THEN Raise(panicWithTrace(t, n, "attempted to access property on nil value",
                                       propName), root.esc)
             ELSE IF KindOf(root.v) = "struct"
             THEN Raise(panicWithTrace(t, n, "no field or method", propName), root.esc)
             ELSE IF KindOf(root.v) = "map"
             THEN LET r == MapIndex(root.v, StrV(propName))
                  IN  [r EXCEPT !.esc = root.esc]
             ELSE Raise(panicWithTrace(t, n, "access on type", <<>>), root.esc)
    [] n.kind = "string" -> Ok(StrV(Slice(n.value, 1, Len(n.value) - 1)), <<>>)
    [] OTHER -> Raise(panicWithTrace(t, n, "unsupported access called on type", <<>>), <<>>)

(***************************************************************************)
(* Template.Execute and Template.eval as a machine                         *)
(*                                                                         *)
(* A call of Execute holds a stack of frames, the top first: "execute" is  *)
(* the loop of Execute over the children of the root, "eval" a pending     *)
(* call of eval, "loop" the for statement of a Range.  Maps of variables   *)
(* live on the heap, which every call allocates from; a frame names its    *)
(* map by address.  The log of a call records what it did: the text and    *)
(* the values it wrote (with the arguments of the calls of the escape      *)
(* function made while evaluating, accessEsc, and while writing, writeEsc),*)
(* the branch each If took, and each turn of each Range (rid is the        *)
(* address of the loop's newVars, bound its entries in that turn).         *)
(***************************************************************************)
\* make(map[string]any)
make(heap) == [heap |-> Append(heap, EmptyMap), addr |-> Len(heap) + 1]

\* newVars, were it one map shared by every Range of every call.
copyVarsShared(heap, vars) == [heap |-> heap, addr |-> 1]

\* newVars, were it the enclosing map itself and no copy.
copyVarsAlias(heap, vars) == [heap |-> heap, addr |-> vars]

\* newVars of KindRange: a fresh map holding a copy of every entry of vars.
copyVars(heap, vars) == [heap |-> Append(heap, heap[vars]), addr |-> Len(heap) + 1]

\* The deferred function of Execute, had it no case for a string.
recoverErrorsOnly(pv) == IF pv.kind = "error" THEN pv ELSE NoPanic

\* The error Execute's deferred function makes of a recovered panic value;
\* NoPanic stands for the nil error.
recover(pv) == IF pv.kind \in {"string", "error"} THEN pv ELSE NoPanic

\* mapsort.Sort: the entries of a map with string keys, by ascending key.
Sort(v) ==
  LET keys == SortedKeys(DOMAIN v.m)
  IN  [i \in 1..Len(keys) |-> [k |-> StrV(keys[i]), v |-> v.m[keys[i]]]]

\* The (index, element) pairs the for statement over a slice visits.
SliceItems(v) == [i \in 1..Len(v.elems) |-> [k |-> IntV(i - 1), v |-> v.elems[i]]]

\* The cases of the Range over a channel, were the default case left out.
SelectCasesRecvOnly == {"recv"}

\* The cases handed to reflect.Select by the Range over a channel.
SelectCases == {"default", "recv"}

\* reflect.Select(cases) on the channel ch: a receive that is ready is
\* chosen (a closed and drained channel gives the zero Value and ok false),
\* else the default case when there is one, else the caller waits.
Select(cases, ch) ==
  IF "recv" \in cases /\ ~ch.isNil /\ ch.buf # <<>>
  THEN [chosen |-> "recv", value |-> Head(ch.buf), ok |-> TRUE,
        ch |-> [ch EXCEPT !.buf = Tail(@)]]
  ELSE IF "recv" \in cases /\ ~ch.isNil /\ ch.closed
  THEN [chosen |-> "recv", value |-> NilV, ok |-> FALSE, ch |-> ch]
  ELSE IF "default" \in cases
  THEN [chosen |-> "default", value |-> NilV, ok |-> FALSE, ch |-> ch]
  ELSE [chosen |-> "wait", value |-> NilV, ok |-> FALSE, ch |-> ch]

\* The channels a data map holds, by id, as they are when Execute is called.
Channels(data) ==
  LET held == {k \in DOMAIN data : data[k].t = "chan"}
  IN  [id \in {data[k].id : k \in held} |->
         LET k == CHOOSE k \in held : data[k].id = id
         IN  [buf |-> data[k].buf, closed |-> data[k].closed, isNil |-> data[k].isNil]]

IdleCall ==
  [pc |-> "idle", data |-> EmptyMap, chans |-> EmptyMap, stack |-> <<>>, out |-> <<>>,
   err |-> NoPanic, log |-> <<>>]

EvalFrame(n, vars) == [op |-> "eval", n |-> n, vars |-> vars]

ExecuteFrame(i) == [op |-> "execute", i |-> i]

\* out.Write(bytes), were the bytes escaped on the way to the sink.
WriteEscaped(cs, bytes, event) ==
  [cs EXCEPT !.out = @ \o HTMLEscape(bytes), !.log = Append(@, event)]

\* out.Write(bytes)
Write(cs, bytes, event) == [cs EXCEPT !.out = @ \o bytes, !.log = Append(@, event)]

\* A panic unwinds every frame to the deferred function of Execute.
Unwind(cs, pv) ==
  [cs EXCEPT !.pc = "done", !.stack = <<>>, !.err = recover(pv),
             !.log = Append(@, [ev |-> "panic", pv |-> pv])]

St(heap, cs) == [heap |-> heap, cs |-> cs]

ValueKinds ==
  {"not", "access", "negate", "bracket_access", "identifier", "variable", "int",
   "infix", "call", "map"}

\* eval(n, out, data, helpers, vars), the frame of the call already popped.
eval(t, heap, cs, n, vars) ==
  CASE n.kind = "<nil>" ->
         St(heap, Unwind(cs, ErrorPanic("invalid memory address or nil pointer dereference")))
    [] n.kind = "text" ->
         St(heap, Write(cs, n.value, [ev |-> "text", s |-> n.value]))
    [] n.kind = "string" ->
         LET s == Slice(n.value, 1, Len(n.value) - 1)
         IN  St(heap, Write(cs, s, [ev |-> "literal", s |-> s]))
    [] n.kind = "statement" ->
         IF n.children = <<>>
         THEN St(heap, Unwind(cs, ErrorPanic("index out of range")))
         ELSE St(heap, [cs EXCEPT !.stack = <<EvalFrame(n.children[1], vars)>> \o @])
    [] n.kind \in ValueKinds ->
         LET value == access(t, n, cs.data, heap[vars])
             str == valueToString(value.v, t.escapeFunc)
         IN  IF value.panic # NoPanic THEN St(heap, Unwind(cs, value.panic))
             ELSE St(heap, Write(cs, str.s,
                       [ev |-> "write", n |-> n, scope |-> vars, vars |-> heap[vars],
                        v |-> value.v,
                        s |-> str.s, accessEsc |-> value.esc, writeEsc |-> str.esc]))
    [] n.kind = "if" ->
         LET conditionResult == access(t, n.children[1], cs.data, heap[vars])
             hasElse == Len(n.children) > 2 /\ n.children[3] # NilNode
             branch == IF isTruthy(conditionResult.v) THEN "then"
                       ELSE IF hasElse THEN "else" ELSE "none"
             pushed == IF branch = "then" THEN <<EvalFrame(n.children[2], vars)>>
                       ELSE IF branch = "else" THEN <<EvalFrame(n.children[3], vars)>>
                       ELSE <<>>
         IN  IF conditionResult.panic # NoPanic
             THEN St(heap, Unwind(cs, conditionResult.panic))
             ELSE St(heap, [cs EXCEPT !.stack = pushed \o @,
                                      !.log = Append(@, [ev |-> "if", n |-> n,
                                                         cond |-> conditionResult.v,
                                                         hasElse |-> hasElse, branch |-> branch,
                                                         depth |-> Len(cs.stack)])])
    [] n.kind = "block" ->
         St(heap, [cs EXCEPT !.stack = [i \in 1..Len(n.children) |->
                                          EvalFrame(n.children[i], vars)] \o @,
                             !.log = Append(@, [ev |-> "block", n |-> n])])
    [] n.kind = "range" ->
         LET newVars == copyVars(heap, vars)
             four == Len(n.children) = 4
             iteratorName == n.children[1].value
             valueName == n.children[2].value
             toLoop == access(t, IF four THEN n.children[3] ELSE n.children[2],
                              cs.data, heap[vars])
             body == IF four THEN n.children[4] ELSE n.children[3]
             v == toLoop.v
             items == IF KindOf(v) = "slice" THEN SliceItems(v)
                      ELSE IF KindOf(v) = "map" THEN Sort(v) ELSE <<>>
             frame == [op |-> "loop", n |-> n, items |-> items, i |-> 1,
                       chan |-> IF KindOf(v) = "chan" THEN v.id ELSE "",
                       vars |-> newVars.addr, body |-> body,
                       iteratorName |-> iteratorName, valueName |-> valueName,
                       outer |-> vars, outerAtStart |-> heap[vars]]
         IN  IF toLoop.panic # NoPanic THEN St(newVars.heap, Unwind(cs, toLoop.panic))
             ELSE IF KindOf(v) \in {"slice", "map", "chan"}
             THEN St(newVars.heap,
                     [cs EXCEPT !.stack = <<frame>> \o @,
                                !.log = Append(@, [ev |-> "range", rid |-> newVars.addr,
                                                   form |-> Len(n.children), over |-> v])])
             ELSE St(newVars.heap,
                     Unwind(cs, panicWithTrace(t, n, "attempted to range over", <<>>)))
    [] OTHER -> St(heap, Unwind(cs, panicWithTrace(t, n, "unsupported kind", <<>>)))

\* One turn of the for statement of a Range over a channel: Select, then
\* leave the loop, or bind the loop variables and evaluate the body.  A
\* Select that waits leaves the call where it is.
chanLoop(t, heap, cs, f) ==
  LET r == Select(SelectCases, cs.chans[f.chan])
      item == [k |-> IntV(f.i - 1), v |-> r.value]
      bound == MapSet(MapSet(heap[f.vars], f.iteratorName, item.k),
                      f.valueName, item.v)
  IN  IF r.chosen = "wait"
      THEN St(heap, [cs EXCEPT !.stack = <<f>> \o @])
      ELSE IF r.chosen = "default" \/ ~r.ok
      THEN St(heap, [cs EXCEPT !.log = Append(@, [ev |-> "rangeEnd", rid |-> f.vars,
                                                  count |-> f.i - 1])])
      ELSE St([heap EXCEPT ![f.vars] = bound],
              [cs EXCEPT !.chans[f.chan] = r.ch,
                         !.stack = <<EvalFrame(f.body, f.vars), [f EXCEPT !.i = @ + 1]>> \o @,
                         !.log = Append(@, [ev |-> "iter", rid |-> f.vars, n |-> f.n,
                                            form |-> Len(f.n.children), i |-> f.i - 1,
                                            item |-> item, iteratorName |-> f.iteratorName,
                                            bound |-> bound])])

\* One turn of the for statement of a Range: bind the loop variables in
\* newVars and evaluate the body, or leave the loop.
loop(t, heap, cs, f) ==
  IF f.chan # "" THEN chanLoop(t, heap, cs, f)
  ELSE IF f.i > Len(f.items)
  THEN St(heap, [cs EXCEPT !.log = Append(@, [ev |-> "rangeEnd", rid |-> f.vars,
                                              count |-> f.i - 1])])
  ELSE LET item == f.items[f.i]
           bound == MapSet(MapSet(heap[f.vars], f.iteratorName, item.k),
                           f.valueName, item.v)
       IN  St([heap EXCEPT ![f.vars] = bound],
              [cs EXCEPT !.stack = <<EvalFrame(f.body, f.vars), [f EXCEPT !.i = @ + 1]>> \o @,
                         !.log = Append(@, [ev |-> "iter", rid |-> f.vars, n |-> f.n,
                                            form |-> Len(f.n.children), i |-> f.i - 1,
                                            item |-> item, iteratorName |-> f.iteratorName,
                                            bound |-> bound])])

\* One step of a running call: the top frame acts.
step(t, heap, cs) ==
  LET f == Head(cs.stack)
      popped == [cs EXCEPT !.stack = Tail(@)]
  IN  IF f.op = "execute"
      THEN IF f.i > Len(t.ast.children)
           THEN St(heap, [popped EXCEPT !.pc = "done"])
           ELSE LET vars == make(heap)
                IN  St(vars.heap,
                       [popped EXCEPT !.stack = <<EvalFrame(t.ast.children[f.i], vars.addr),
                                                  ExecuteFrame(f.i + 1)>> \o @])
      ELSE IF f.op = "eval" THEN eval(t, heap, popped, f.n, f.vars)
      ELSE loop(t, heap, popped, f)

(***************************************************************************)
(* The inputs: template sources and data                                   *)
(***************************************************************************)
\* The longest source built from the alphabet.
MaxSrcLen == 4

\* The number of Execute calls made on the template.
MaxRuns == 2

Alphabet == {"{", "}", "a", "\"", "<"}

\* Every string over the alphabet of at most n characters.
Strings(n) == UNION {[1..k -> Alphabet] : k \in 0..n}

\* {{s}}{{h}}{{z}}{{n}}{{g}}{{p}}
TplValues ==
  <<"{", "{", "s", "}", "}", "{", "{", "h", "}", "}", "{", "{", "z", "}", "}",
  "{", "{", "n", "}", "}", "{", "{", "g", "}", "}", "{", "{", "p", "}", "}">>

\* a<\n{{s}}&b
TplText ==
  <<"a", "<", "\n", "{", "{", "s", "}", "}", "&", "b">>

\* {{s + h}}
TplConcat ==
  <<"{", "{", "s", " ", "+", " ", "h", "}", "}">>

\* {{h + s + h}}{{"<" + s}}
TplConcatChain ==
  <<"{", "{", "h", " ", "+", " ", "s", " ", "+", " ", "h", "}", "}", "{", "{",
  "\"", "<", "\"", " ", "+", " ", "s", "}", "}">>

\* {{if s}}1{{end}}{{if z}}2{{else}}3{{end}}{{if f}}4{{end}}{{if p}}5{{else}}6{{end}}
TplIf ==
  <<"{", "{", "i", "f", " ", "s", "}", "}", "1", "{", "{", "e", "n", "d", "}",
  "}", "{", "{", "i", "f", " ", "z", "}", "}", "2", "{", "{", "e", "l", "s",
  "e", "}", "}", "3", "{", "{", "e", "n", "d", "}", "}", "{", "{", "i", "f",
  " ", "f", "}", "}", "4", "{", "{", "e", "n", "d", "}", "}", "{", "{", "i",
  "f", " ", "p", "}", "}", "5", "{", "{", "e", "l", "s", "e", "}", "}", "6",
  "{", "{", "e", "n", "d", "}", "}">>

\* {{if n}}7{{else}}8{{end}}{{if e}}9{{end}}{{if u}}0{{end}}{{if t}}{{s}}{{end}}
TplIfMore ==
  <<"{", "{", "i", "f", " ", "n", "}", "}", "7", "{", "{", "e", "l", "s", "e",
  "}", "}", "8", "{", "{", "e", "n", "d", "}", "}", "{", "{", "i", "f", " ",
  "e", "}", "}", "9", "{", "{", "e", "n", "d", "}", "}", "{", "{", "i", "f",
  " ", "u", "}", "}", "0", "{", "{", "e", "n", "d", "}", "}", "{", "{", "i",
  "f", " ", "t", "}", "}", "{", "{", "s", "}", "}", "{", "{", "e", "n", "d",
  "}", "}">>

\* {{range $i, $v in xs}}{{$i}}{{$v}}{{end}}
TplRange ==
  <<"{", "{", "r", "a", "n", "g", "e", " ", "$", "i", ",", " ", "$", "v", " ",
  "i", "n", " ", "x", "s", "}", "}", "{", "{", "$", "i", "}", "}", "{", "{",
  "$", "v", "}", "}", "{", "{", "e", "n", "d", "}", "}">>

\* {{range $i in xs}}{{$i}}{{end}}{{range $i in e}}x{{end}}
TplRangeSingle ==
  <<"{", "{", "r", "a", "n", "g", "e", " ", "$", "i", " ", "i", "n", " ", "x",
  "s", "}", "}", "{", "{", "$", "i", "}", "}", "{", "{", "e", "n", "d", "}",
  "}", "{", "{", "r", "a", "n", "g", "e", " ", "$", "i", " ", "i", "n", " ",
  "e", "}", "}", "x", "{", "{", "e", "n", "d", "}", "}">>

\* {{range $k, $v in m}}{{$k}}{{$v}}{{end}}
TplRangeMap ==
  <<"{", "{", "r", "a", "n", "g", "e", " ", "$", "k", ",", " ", "$", "v", " ",
  "i", "n", " ", "m", "}", "}", "{", "{", "$", "k", "}", "}", "{", "{", "$",
  "v", "}", "}", "{", "{", "e", "n", "d", "}", "}">>

\* {{range $i, $x in rows}}{{range $x in $x}}{{$x}}{{end}}{{end}}
TplRangeSame ==
  <<"{", "{", "r", "a", "n", "g", "e", " ", "$", "i", ",", " ", "$", "x", " ",
  "i", "n", " ", "r", "o", "w", "s", "}", "}", "{", "{", "r", "a", "n", "g",
  "e", " ", "$", "x", " ", "i", "n", " ", "$", "x", "}", "}", "{", "{", "$",
  "x", "}", "}", "{", "{", "e", "n", "d", "}", "}", "{", "{", "e", "n", "d",
  "}", "}">>

\* {{if rows}}{{range $i, $v in rows}}{{range $i, $w in $v}}{{$w}}{{end}}{{$i}}{{end}}{{$i}}{{end}}
TplRangeNested ==
  <<"{", "{", "i", "f", " ", "r", "o", "w", "s", "}", "}", "{", "{", "r", "a",
  "n", "g", "e", " ", "$", "i", ",", " ", "$", "v", " ", "i", "n", " ", "r",
  "o", "w", "s", "}", "}", "{", "{", "r", "a", "n", "g", "e", " ", "$", "i",
  ",", " ", "$", "w", " ", "i", "n", " ", "$", "v", "}", "}", "{", "{", "$",
  "w", "}", "}", "{", "{", "e", "n", "d", "}", "}", "{", "{", "$", "i", "}",
  "}", "{", "{", "e", "n", "d", "}", "}", "{", "{", "$", "i", "}", "}", "{",
  "{", "e", "n", "d", "}", "}">>

\* {{if t}}{{range $i, $v in xs}}{{$v}}{{end}}{{$i}}{{$v}}{{end}}
TplRangeAfter ==
  <<"{", "{", "i", "f", " ", "t", "}", "}", "{", "{", "r", "a", "n", "g", "e",
  " ", "$", "i", ",", " ", "$", "v", " ", "i", "n", " ", "x", "s", "}", "}",
  "{", "{", "$", "v", "}", "}", "{", "{", "e", "n", "d", "}", "}", "{", "{",
  "$", "i", "}", "}", "{", "{", "$", "v", "}", "}", "{", "{", "e", "n", "d",
  "}", "}">>

\* {{range $i, $v in xs}}{{$v}}{{z.x}}{{end}}c
TplRangeFail ==
  <<"{", "{", "r", "a", "n", "g", "e", " ", "$", "i", ",", " ", "$", "v", " ",
  "i", "n", " ", "x", "s", "}", "}", "{", "{", "$", "v", "}", "}", "{", "{",
  "z", ".", "x", "}", "}", "{", "{", "e", "n", "d", "}", "}", "c">>

\* a{{z.x}}b
TplAccessNil ==
  <<"a", "{", "{", "z", ".", "x", "}", "}", "b">>

\* x{{xs[5]}}y
TplIndexRange ==
  <<"x", "{", "{", "x", "s", "[", "5", "]", "}", "}", "y">>

\* x\n{{m.q}}y
TplMissingKey ==
  <<"x", "\n", "{", "{", "m", ".", "q", "}", "}", "y">>

\* {{range $i in n}}{{end}}
TplRangeInt ==
  <<"{", "{", "r", "a", "n", "g", "e", " ", "$", "i", " ", "i", "n", " ", "n",
  "}", "}", "{", "{", "e", "n", "d", "}", "}">>

\* a{{boom()}}b
TplBoom ==
  <<"a", "{", "{", "b", "o", "o", "m", "(", ")", "}", "}", "b">>

\* {{len(xs)}}{{safe(s)}}{{lt()}}
TplHelpers ==
  <<"{", "{", "l", "e", "n", "(", "x", "s", ")", "}", "}", "{", "{", "s", "a",
  "f", "e", "(", "s", ")", "}", "}", "{", "{", "l", "t", "(", ")", "}", "}">>

\* {{-n}}{{!z}}{{n == 3}}{{n + 1}}
TplOperators ==
  <<"{", "{", "-", "n", "}", "}", "{", "{", "!", "z", "}", "}", "{", "{", "n",
  " ", "=", "=", " ", "3", "}", "}", "{", "{", "n", " ", "+", " ", "1", "}",
  "}">>

\* a{{n - s}}
TplSubtract ==
  <<"a", "{", "{", "n", " ", "-", " ", "s", "}", "}">>

\* {{end}}{{
TplStrayEnd ==
  <<"{", "{", "e", "n", "d", "}", "}", "{", "{">>

\* x{{else}}y
TplStrayElse ==
  <<"x", "{", "{", "e", "l", "s", "e", "}", "}", "y">>

\* {{"<a"}}
TplLiteral ==
  <<"{", "{", "\"", "<", "a", "\"", "}", "}">>

\* {{range $i, $v in c}}{{$v}}{{$i}}{{end}}z
TplRangeChan ==
  <<"{", "{", "r", "a", "n", "g", "e", " ", "$", "i", ",", " ", "$", "v", " ",
  "i", "n", " ", "c", "}", "}", "{", "{", "$", "v", "}", "}", "{", "{", "$",
  "i", "}", "}", "{", "{", "e", "n", "d", "}", "}", "z">>

\* {{range $i, $v in d}}{{$v}}{{end}}{{range $v in o}}x{{end}}{{range $v in q}}y{{end}}
TplRangeChanMore ==
  <<"{", "{", "r", "a", "n", "g", "e", " ", "$", "i", ",", " ", "$", "v", " ",
  "i", "n", " ", "d", "}", "}", "{", "{", "$", "v", "}", "}", "{", "{", "e",
  "n", "d", "}", "}", "{", "{", "r", "a", "n", "g", "e", " ", "$", "v", " ",
  "i", "n", " ", "o", "}", "}", "x", "{", "{", "e", "n", "d", "}", "}", "{",
  "{", "r", "a", "n", "g", "e", " ", "$", "v", " ", "i", "n", " ", "q", "}",
  "}", "y", "{", "{", "e", "n", "d", "}", "}">>

\* {{if t}}{{safe(n)}}{{else}}{{len()}}{{end}}
TplCallFail ==
  <<"{", "{", "i", "f", " ", "t", "}", "}", "{", "{", "s", "a", "f", "e", "(",
  "n", ")", "}", "}", "{", "{", "e", "l", "s", "e", "}", "}", "{", "{", "l",
  "e", "n", "(", ")", "}", "}", "{", "{", "e", "n", "d", "}", "}">>

\* a\n{{if nope(s)}}x{{end}}
TplCallNil ==
  <<"a", "\n", "{", "{", "i", "f", " ", "n", "o", "p", "e", "(", "s", ")",
  "}", "}", "x", "{", "{", "e", "n", "d", "}", "}">>

\* {{range $i in boom(n, s)}}{{end}}
TplCallRange ==
  <<"{", "{", "r", "a", "n", "g", "e", " ", "$", "i", " ", "i", "n", " ", "b",
  "o", "o", "m", "(", "n", ",", " ", "s", ")", "}", "}", "{", "{", "e", "n",
  "d", "}", "}">>

\* {{i - j}}
TplMixedSub ==
  <<"{", "{", "i", " ", "-", " ", "j", "}", "}">>

\* {{i + j}}
TplMixedAdd ==
  <<"{", "{", "i", " ", "+", " ", "j", "}", "}">>

\* {{i * j}}
TplMixedMul ==
  <<"{", "{", "i", " ", "*", " ", "j", "}", "}">>

\* {{i / j}}
TplMixedDiv ==
  <<"{", "{", "i", " ", "/", " ", "j", "}", "}">>

\* {{i % j}}
TplMixedMod ==
  <<"{", "{", "i", " ", "%", " ", "j", "}", "}">>

\* {{if n > 3}}foo{{end}}
TplGreater ==
  <<"{", "{", "i", "f", " ", "n", " ", ">", " ", "3", "}", "}", "f", "o", "o",
  "{", "{", "e", "n", "d", "}", "}">>

\* {{if n < 3}}foo{{end}}
TplLess ==
  <<"{", "{", "i", "f", " ", "n", " ", "<", " ", "3", "}", "}", "f", "o", "o",
  "{", "{", "e", "n", "d", "}", "}">>

\* {{if n >= 3}}foo{{end}}
TplGreaterEq ==
  <<"{", "{", "i", "f", " ", "n", " ", ">", "=", " ", "3", "}", "}", "f", "o",
  "o", "{", "{", "e", "n", "d", "}", "}">>

\* {{if n <= 3}}foo{{end}}
TplLessEq ==
  <<"{", "{", "i", "f", " ", "n", " ", "<", "=", " ", "3", "}", "}", "f", "o",
  "o", "{", "{", "e", "n", "d", "}", "}">>

\* {{if 0 == len(xs) - 1}}y{{end}}
TplMathOrder ==
  <<"{", "{", "i", "f", " ", "0", " ", "=", "=", " ", "l", "e", "n", "(", "x",
  "s", ")", " ", "-", " ", "1", "}", "}", "y", "{", "{", "e", "n", "d", "}",
  "}">>

\* {{n -1}}
TplMinusTight ==
  <<"{", "{", "n", " ", "-", "1", "}", "}">>

\* {{n-1}}
TplMinusNoSpace ==
  <<"{", "{", "n", "-", "1", "}", "}">>

\* {{len(xs) - 1}}{{n == -3}}
TplMinusCall ==
  <<"{", "{", "l", "e", "n", "(", "x", "s", ")", " ", "-", " ", "1", "}", "}",
  "{", "{", "n", " ", "=", "=", " ", "-", "3", "}", "}">>

\* {{!p}}{{if p}}1{{else}}0{{end}}{{!f}}{{if f}}1{{else}}0{{end}}{{!n}}{{if n}}1{{else}}0{{end}}
TplNotIf ==
  <<"{", "{", "!", "p", "}", "}", "{", "{", "i", "f", " ", "p", "}", "}", "1",
  "{", "{", "e", "l", "s", "e", "}", "}", "0", "{", "{", "e", "n", "d", "}",
  "}", "{", "{", "!", "f", "}", "}", "{", "{", "i", "f", " ", "f", "}", "}",
  "1", "{", "{", "e", "l", "s", "e", "}", "}", "0", "{", "{", "e", "n", "d",
  "}", "}", "{", "{", "!", "n", "}", "}", "{", "{", "i", "f", " ", "n", "}",
  "}", "1", "{", "{", "e", "l", "s", "e", "}", "}", "0", "{", "{", "e", "n",
  "d", "}", "}">>

\* {{ {k: n} }}
TplMapIdent ==
  <<"{", "{", " ", "{", "k", ":", " ", "n", "}", " ", "}", "}">>

\* {{ {k: xs[0]} }}
TplMapIndex ==
  <<"{", "{", " ", "{", "k", ":", " ", "x", "s", "[", "0", "]", "}", " ", "}",
  "}">>

\* {{ {k: m.a} }}
TplMapDot ==
  <<"{", "{", " ", "{", "k", ":", " ", "m", ".", "a", "}", " ", "}", "}">>

\* {{ {k: len(xs)} }}
TplMapCall ==
  <<"{", "{", " ", "{", "k", ":", " ", "l", "e", "n", "(", "x", "s", ")", "}",
  " ", "}", "}">>

\* {{m["q"]}}x{{m["a"]}}
TplBracketMissing ==
  <<"{", "{", "m", "[", "\"", "q", "\"", "]", "}", "}", "x", "{", "{", "m",
  "[", "\"", "a", "\"", "]", "}", "}">>

\* a{{nil}}b
TplNil ==
  <<"a", "{", "{", "n", "i", "l", "}", "}", "b">>

\* {{true}}
TplTrue ==
  <<"{", "{", "t", "r", "u", "e", "}", "}">>

\* {{false}}
TplFalse ==
  <<"{", "{", "f", "a", "l", "s", "e", "}", "}">>

\* {{42}}
TplInt ==
  <<"{", "{", "4", "2", "}", "}">>

\* {{s}}\nb\n
TplLineTail ==
  <<"{", "{", "s", "}", "}", "\n", "b", "\n">>

\* a\n{{\ns\n}}b
TplLineAction ==
  <<"a", "\n", "{", "{", "\n", "s", "\n", "}", "}", "b">>

\* {{if n == 3}}a{{else}}b{{end}}{{range $i, $v in xs}}{{if t}}{{$v}}{{end}}{{end}}{{range $v in e}}c{{end}}
TplShapes ==
  <<"{", "{", "i", "f", " ", "n", " ", "=", "=", " ", "3", "}", "}", "a", "{",
  "{", "e", "l", "s", "e", "}", "}", "b", "{", "{", "e", "n", "d", "}", "}",
  "{", "{", "r", "a", "n", "g", "e", " ", "$", "i", ",", " ", "$", "v", " ",
  "i", "n", " ", "x", "s", "}", "}", "{", "{", "i", "f", " ", "t", "}", "}",
  "{", "{", "$", "v", "}", "}", "{", "{", "e", "n", "d", "}", "}", "{", "{",
  "e", "n", "d", "}", "}", "{", "{", "r", "a", "n", "g", "e", " ", "$", "v",
  " ", "i", "n", " ", "e", "}", "}", "c", "{", "{", "e", "n", "d", "}", "}">>

\* {{range $k, $r in rows}}{{range $i in $r}}{{$r}}{{end}}{{end}}
TplRangeClobber ==
  <<"{", "{", "r", "a", "n", "g", "e", " ", "$", "k", ",", " ", "$", "r", " ",
  "i", "n", " ", "r", "o", "w", "s", "}", "}", "{", "{", "r", "a", "n", "g",
  "e", " ", "$", "i", " ", "i", "n", " ", "$", "r", "}", "}", "{", "{", "$",
  "r", "}", "}", "{", "{", "e", "n", "d", "}", "}", "{", "{", "e", "n", "d",
  "}", "}">>

Templates ==
  {TplValues, TplText, TplConcat, TplConcatChain, TplIf, TplIfMore, TplRange,
   TplRangeSingle, TplRangeMap, TplRangeSame, TplRangeNested, TplRangeAfter,
   TplRangeFail, TplAccessNil, TplIndexRange, TplMissingKey, TplRangeInt,
   TplBoom, TplHelpers, TplOperators, TplSubtract, TplStrayEnd, TplStrayElse,
   TplLiteral, TplCallFail, TplCallNil, TplCallRange,
   TplMixedSub, TplMixedAdd, TplMixedMul, TplMixedDiv, TplMixedMod,
   TplGreater, TplLess, TplGreaterEq, TplLessEq, TplMathOrder, TplMinusTight,
   TplMinusNoSpace, TplMinusCall, TplNotIf, TplMapIdent, TplMapIndex,
   TplMapDot, TplMapCall, TplBracketMissing, TplNil, TplTrue, TplFalse,
   TplInt, TplLineTail, TplLineAction, TplShapes,
   TplRangeClobber}

Sources == Strings(MaxSrcLen) \cup Templates

\* The sources the concurrent calls run.
ConcSources == {TplText, TplRange, TplRangeNested, TplRangeFail, TplIf}

Data1 ==
  (<<"s">> :> StrV(<<"<", "a", "&">>)) @@ (<<"h">> :> SafeV(<<"<", "b", ">">>)) @@
  (<<"n">> :> IntV(3)) @@ (<<"z">> :> NilV) @@ (<<"t">> :> BoolV(TRUE)) @@
  (<<"f">> :> BoolV(FALSE)) @@ (<<"p">> :> NilPtrV) @@
  (<<"g">> :> StringerV(<<"<", "g", ">">>)) @@
  (<<"x", "s">> :> SliceV(<<StrV(<<"a">>), StrV(<<"<">>)>>)) @@
  (<<"e">> :> SliceV(<<>>)) @@
  (<<"i">> :> NumV("int32", 100)) @@ (<<"j">> :> NumV("int64", 200)) @@
  (<<"m">> :> MapV((<<"b">> :> IntV(1)) @@ (<<"a">> :> StrV(<<"<">>)))) @@
  (<<"r", "o", "w", "s">> :> SliceV(<<SliceV(<<IntV(7), IntV(8)>>), SliceV(<<IntV(9)>>)>>))

Data2 ==
  (<<"s">> :> StrV(<<"x">>)) @@ (<<"h">> :> SafeV(<<"&">>)) @@
  (<<"n">> :> IntV(0)) @@ (<<"t">> :> BoolV(FALSE)) @@ (<<"f">> :> StrV(<<>>)) @@
  (<<"p">> :> NilSliceV) @@ (<<"e">> :> NilMapV) @@
  (<<"i">> :> NumV("int64", 7)) @@ (<<"j">> :> NumV("int64", 0)) @@
  (<<"x", "s">> :> SliceV(<<StrV(<<"c">>)>>)) @@
  (<<"m">> :> MapV((<<"c">> :> NilV) @@ (<<"a", "b">> :> IntV(2)) @@ (<<"a">> :> IntV(1)))) @@
  (<<"r", "o", "w", "s">> :> SliceV(<<SliceV(<<IntV(5)>>)>>))

\* Channels: c holds two values, d is closed with one value left in it, o
\* is open and empty, q is a nil channel.
DataChan ==
  (<<"c">> :> ChanV("c", <<StrV(<<"a">>), StrV(<<"<">>)>>, FALSE)) @@
  (<<"d">> :> ChanV("d", <<IntV(4)>>, TRUE)) @@
  (<<"o">> :> ChanV("o", <<>>, FALSE)) @@
  (<<"q">> :> NilChanV) @@ (<<"s">> :> StrV(<<"x">>))

\* The capacity of every channel.
ChanCap == 2

\* The number of values other goroutines send while a call runs.
MaxSends == 1

DataSets == {EmptyMap, Data1, Data2}

(***************************************************************************)
(* The state machine                                                       *)
(***************************************************************************)
VARIABLES
  source,   \* the input NewTemplate was called with
  tmpl,     \* the Template NewTemplate returned, and how the call ended
  heap,     \* the maps of variables allocated so far
  calls,    \* the calls of Execute, by caller
  results,  \* what each finished call of Execute gave its caller, in order
  cmp,      \* the operands of a comparison made on its own, and its results
  engine,   \* the Engine: the templates registered by name
  renders   \* the calls of Engine.Render in progress, and what the first gave

vars == <<source, tmpl, heap, calls, results, cmp, engine, renders>>

\* No comparison is made.
NoOperands == [pc |-> "none"]

\* No Engine is built.
NoEngine == [built |-> FALSE, escapeFunc |-> "NoEscape", templates |-> EmptyMap]

\* No call of Render is made.
NoRenders == [stack |-> <<>>, pc |-> "none", w |-> <<>>, err |-> <<>>, log |-> <<>>]

NoTemplate ==
  [status |-> "none", raw |-> <<>>, ast |-> NilNode, escapeFunc |-> "HTMLEscape",
   helpers |-> EmptyMap]

InitWith(callers) ==
  /\ source = <<>>
  /\ tmpl = NoTemplate
  /\ heap = <<>>
  /\ calls = [c \in callers |-> IdleCall]
  /\ results = <<>>
  /\ cmp = NoOperands
  /\ engine = NoEngine
  /\ renders = NoRenders

Init == InitWith({1})

InitConc == InitWith({1, 2})

\* NewTemplate(input, WithEscapeFunc(fn), WithHelpers(Helpers)): a Template,
\* an error, or the panic of the lexer, which nothing recovers.
NewTemplate(input, fn) ==
  /\ tmpl.status = "none"
  /\ source' = input
  /\ LET l == Lex(input)
         parsed == Parse(l.tokens)
     IN  tmpl' = IF l.panicked THEN [NoTemplate EXCEPT !.status = "panic"]
                 ELSE IF parsed.err # "" THEN [NoTemplate EXCEPT !.status = "error"]
                 ELSE [status |-> "ok", raw |-> input, ast |-> parsed.ast,
                       escapeFunc |-> fn, helpers |-> Helpers]
  /\ UNCHANGED <<heap, calls, results, cmp, engine, renders>>

Running == {c \in DOMAIN calls : calls[c].pc = "running"}

\* Execute is called: its deferred function is set and its loop starts.
Execute(c, data) ==
  /\ tmpl.status = "ok"
  /\ calls[c].pc # "running"
  /\ Len(results) + Cardinality(Running) < MaxRuns
  /\ calls' = [calls EXCEPT ![c] = [IdleCall EXCEPT !.pc = "running", !.data = data,
                                                    !.chans = Channels(data),
                                                    !.stack = <<ExecuteFrame(1)>>]]
  /\ UNCHANGED <<source, tmpl, heap, results, cmp, engine, renders>>

\* The outcome r of a step is stored; the step that ends the call returns to
\* the caller.
Return(c, r) ==
  /\ heap' = r.heap
  /\ calls' = [calls EXCEPT ![c] = r.cs]
  /\ results' = IF r.cs.pc = "done"
                THEN Append(results, [call |-> c, data |-> r.cs.data,
                                      out |-> r.cs.out, err |-> r.cs.err])
                ELSE results

\* A running call takes its next step.
Eval(c) ==
  /\ calls[c].pc = "running"
  /\ Return(c, step(tmpl, heap, calls[c]))
  /\ UNCHANGED <<source, tmpl, cmp, engine, renders>>

Next ==
  \/ \E input \in Sources, fn \in EscapeFuncs : NewTemplate(input, fn)
  \/ \E c \in DOMAIN calls, data \in DataSets : Execute(c, data)
  \/ \E c \in DOMAIN calls : Eval(c)

Spec == Init /\ [][Next]_vars

NextConc ==
  \/ \E input \in ConcSources, fn \in EscapeFuncs : NewTemplate(input, fn)
  \/ \E c \in DOMAIN calls, data \in DataSets : Execute(c, data)
  \/ \E c \in DOMAIN calls : Eval(c)

SpecConc == InitConc /\ [][NextConc]_vars

\* The values sent on the channels of call c while it ran.
Sends(c) == {j \in 1..Len(calls[c].log) : calls[c].log[j].ev = "send"}

\* Another goroutine sends v on the channel id of the data of call c: the
\* send goes through when the buffer has room.
Send(c, id, v) ==
  /\ calls[c].pc = "running"
  /\ Cardinality(Sends(c)) < MaxSends
  /\ ~calls[c].chans[id].isNil
  /\ ~calls[c].chans[id].closed
  /\ Len(calls[c].chans[id].buf) < ChanCap
  /\ calls' = [calls EXCEPT ![c].chans[id].buf = Append(@, v),
                            ![c].log = Append(@, [ev |-> "send", id |-> id, v |-> v])]
  /\ UNCHANGED <<source, tmpl, heap, results, cmp, engine, renders>>

\* Another goroutine closes the channel id of the data of call c.
Close(c, id) ==
  /\ calls[c].pc = "running"
  /\ ~calls[c].chans[id].isNil
  /\ ~calls[c].chans[id].closed
  /\ calls' = [calls EXCEPT ![c].chans[id].closed = TRUE,
                            ![c].log = Append(@, [ev |-> "close", id |-> id])]
  /\ UNCHANGED <<source, tmpl, heap, results, cmp, engine, renders>>

NextChan ==
  \/ \E input \in {TplRangeChan, TplRangeChanMore}, fn \in EscapeFuncs :
        NewTemplate(input, fn)
  \/ \E c \in DOMAIN calls : results = <<>> /\ Execute(c, DataChan)
  \/ \E c \in DOMAIN calls : Eval(c)
  \/ \E c \in DOMAIN calls : \E id \in DOMAIN calls[c].chans : Send(c, id, StrV(<<"n">>))
  \/ \E c \in DOMAIN calls : \E id \in DOMAIN calls[c].chans : Close(c, id)

\* Calls on data that holds channels, with goroutines that send on them and
\* close them meanwhile.  A running call is scheduled again and again.
SpecChan == Init /\ [][NextChan]_vars /\ WF_vars(Eval(1))

\* The values compared on their own: Nil and nil host values, booleans,
\* integers of several kinds and signs, strings and a slice.
Operands ==
  {NilV, NilPtrV, NilMapV, BoolV(TRUE), BoolV(FALSE),
   IntV(50), IntV(-1), IntV(3), IntV(257), NumV("int64", 50), NumV("int64", -1),
   NumV("int8", 1), NumV("int8", -1), NumV("uint", 50), NumV("uint", 0),
   NumV("uint8", 255), NumV("uint64", 3),
   StrV(<<"2">>), StrV(<<"a">>), SafeV(<<"a">>), SliceV(<<IntV(1)>>)}

\* The operands are drawn.
InitCompare ==
  /\ source = <<>>
  /\ tmpl = NoTemplate
  /\ heap = <<>>
  /\ calls = [c \in {1} |-> IdleCall]
  /\ results = <<>>
  /\ cmp \in {[pc |-> "drawn", l |-> l, r |-> r] : l \in Operands, r \in Operands}
  /\ engine = NoEngine
  /\ renders = NoRenders

\* compare(l, r) and compare(r, l) are called, as TestCompare calls them.
Compare ==
  /\ cmp.pc = "drawn"
  /\ cmp' = [pc |-> "compared", l |-> cmp.l, r |-> cmp.r,
             eq |-> compare(cmp.l, cmp.r), eqBack |-> compare(cmp.r, cmp.l)]
  /\ UNCHANGED <<source, tmpl, heap, calls, results, engine, renders>>

\* lessThan(l, r) and lessThan(r, l) are called, as TestLessThan calls them.
LessThan ==
  /\ cmp.pc = "drawn"
  /\ cmp' = [pc |-> "ordered", l |-> cmp.l, r |-> cmp.r,
             lt |-> lessThan(cmp.l, cmp.r), ltBack |-> lessThan(cmp.r, cmp.l)]
  /\ UNCHANGED <<source, tmpl, heap, calls, results, engine, renders>>

NextCompare == Compare \/ LessThan

\* compare and lessThan applied to every pair of operands.
SpecCompare == InitCompare /\ [][NextCompare]_vars

(***************************************************************************)
(* engine.go                                                               *)
(*                                                                         *)
(* A registered template is the list of its statements: a text, the value  *)
(* of a name of the data ({{ name }}), a call of the layout helper         *)
(* ({{ layout("l") }}) or a call of the partial helper                     *)
(* ({{ partial("p", {n: n}) }}).  An error is the list of the messages it  *)
(* wraps, outermost first; the nil error is the empty list.                *)
(***************************************************************************)
Text(s) == [k |-> "text", s |-> s]

Show(key) == [k |-> "show", key |-> key]

Layout(name) == [k |-> "layout", name |-> name]

Partial(name) == [k |-> "partial", name |-> name]

ChildContent == <<"C", "h", "i", "l", "d", "C", "o", "n", "t", "e", "n", "t">>

\* The number of nested calls of Render the goroutine's stack holds: one
\* more is a stack overflow, which ends the program.
MaxDepth == 5

\* The templates a test registers, by name: a page h, layouts l and r, a
\* partial p.  The name x is registered by none.
Bodies ==
  [name \in {"h", "l", "r", "p"} |->
     CASE name = "h" ->
            {<<Layout("l"), Show(<<"n">>)>>,
             <<Layout("l"), Text(<<"a">>), Layout("r")>>,
             <<Text(<<"<", "i", ">">>), Partial("p"), Show(<<"n">>)>>,
             <<Layout("x"), Show(<<"n">>)>>,
             <<Layout("h")>>}
       [] name = "l" ->
            {<<Text(<<"<", "h", ">">>), Show(ChildContent), Text(<<"!">>)>>,
             <<Layout("r"), Show(<<"t">>), Show(ChildContent)>>,
             <<Layout("h"), Show(ChildContent)>>}
       [] name = "r" ->
            {<<Text(<<"<", "r", ">">>), Show(ChildContent)>>}
       [] OTHER ->
            {<<Show(<<"n">>)>>,
             <<Partial("x")>>,
             <<Text(<<"a">>), Partial("p")>>}]

\* The data Render is called with.
DataRender == (<<"n">> :> StrV(<<"<", "F", ">">>)) @@ (<<"t">> :> StrV(<<"&">>))

\* Register(name, input): the template is stored under the name.
Register(name, body) ==
  /\ engine.built
  /\ renders.pc = "none"
  /\ name \notin DOMAIN engine.templates
  /\ engine' = [engine EXCEPT !.templates = MapSet(@, name, body)]
  /\ UNCHANGED <<source, tmpl, heap, calls, results, cmp, renders>>

\* The layout helper, were a second call to replace the layout.
layoutHelperOverwrite(layoutName, name) == [layoutName |-> name, panic |-> ""]

\* What the layout helper of one call of Render does when called with name:
\* the layout name after it, and the value it panics with ("" for none).
layoutHelper(layoutName, name) ==
  IF layoutName # "" THEN [layoutName |-> layoutName, panic |-> "layout already set"]
  ELSE [layoutName |-> name, panic |-> ""]

\* The value bound to ChildContent, were it a plain string.
childContentPlain(b) == StrV(b)

\* Safe(b.String())
childContent(b) == SafeV(b)

\* templateData: the caller's data and ChildContent.
templateData(data, b) == MapSet(data, ChildContent, childContent(b))

\* The map literal {n: n} a template passes to partial.
partialData(data) == <<"n">> :> MapGet(data, <<"n">>)

\* The frame of a call of Render: the template's name, the data, the next
\* statement of Execute, the buffer b, layoutName, and the call it waits
\* for ("" for none, "partial", "layout").
RenderFrame(id, name, data) ==
  [id |-> id, name |-> name, data |-> data, i |-> 1, b |-> <<>>, layoutName |-> "",
   wait |-> ""]

\* The calls of Render made so far.
Calls(rs) == {j \in 1..Len(rs.log) : rs.log[j].ev = "call"}

RECURSIVE deliver(_, _, _)
\* The call on top of the stack has returned out and err: its caller goes
\* on.  The partial helper panics with the error, which the call of the
\* helper recovers and Execute returns, so that the Render that called the
\* helper returns it; a Render that rendered its layout returns the error,
\* or writes the layout's output.
deliver(rs, out, err) ==
  LET top == Head(rs.stack)
      logged == [rs EXCEPT !.stack = Tail(@),
                           !.log = Append(@, [ev |-> "return", id |-> top.id,
                                              out |-> out, err |-> err])]
  IN  IF Tail(rs.stack) = <<>>
      THEN [logged EXCEPT !.pc = "returned", !.w = out, !.err = err]
      ELSE LET parent == Head(Tail(rs.stack))
           IN  IF err # <<>>
               THEN deliver(logged, <<>>,
                            IF parent.wait = "partial"
                            THEN <<"error calling function">> \o err ELSE err)
               ELSE IF parent.wait = "partial"
               THEN [logged EXCEPT !.stack = <<[parent EXCEPT !.b = @ \o out, !.i = @ + 1,
                                                              !.wait = ""]>> \o Tail(@)]
               ELSE deliver(logged, out, <<>>)

\* e.Render(w, name, data) is called by the frame on top of the stack, or
\* by the test when the stack is empty.
call(e, rs, name, data) ==
  LET id == Cardinality(Calls(rs)) + 1
      called == [rs EXCEPT !.stack = <<RenderFrame(id, name, data)>> \o @,
                           !.log = Append(@, [ev |-> "call", id |-> id, name |-> name,
                                              data |-> data,
                                              parent |-> IF rs.stack = <<>> THEN 0
                                                         ELSE Head(rs.stack).id])]
  IN  IF Len(rs.stack) = MaxDepth THEN [rs EXCEPT !.pc = "overflow"]
      ELSE IF name \notin DOMAIN e.templates
      THEN deliver(called, <<>>, <<"template not found">>)
      ELSE called

\* One step of the call of Render on top of the stack: a statement of its
\* template, or what follows Execute.
render(e, rs) ==
  LET f == Head(rs.stack)
      items == e.templates[f.name]
      set(g) == [rs EXCEPT !.stack = <<g>> \o Tail(@)]
  IN  IF f.i > Len(items)
      THEN LET executed == [rs EXCEPT !.log = Append(@, [ev |-> "executed", id |-> f.id,
                                                         b |-> f.b,
                                                         layoutName |-> f.layoutName])]
           IN  IF f.layoutName = "" THEN deliver(executed, f.b, <<>>)
               ELSE call(e, [executed EXCEPT !.stack = <<[f EXCEPT !.wait = "layout"]>> \o Tail(@)],
                         f.layoutName, templateData(f.data, f.b))
      ELSE LET item == items[f.i]
           IN  CASE item.k = "text" -> set([f EXCEPT !.b = @ \o item.s, !.i = @ + 1])
                 [] item.k = "show" ->
                      set([f EXCEPT !.b = @ \o valueToString(MapGet(f.data, item.key),
                                                             e.escapeFunc).s,
                                    !.i = @ + 1])
                 [] item.k = "layout" ->
                      LET h == layoutHelper(f.layoutName, item.name)
                      IN  IF h.panic # ""
                          THEN deliver(rs, <<>>, <<"error calling function", h.panic>>)
                          ELSE set([f EXCEPT !.layoutName = h.layoutName, !.i = @ + 1])
                 [] OTHER ->
                      call(e, set([f EXCEPT !.wait = "partial"]), item.name,
                           partialData(f.data))

\* NewEngine(escapeFunc)
NewEngine(fn) ==
  /\ ~engine.built
  /\ engine' = [built |-> TRUE, escapeFunc |-> fn, templates |-> EmptyMap]
  /\ UNCHANGED <<source, tmpl, heap, calls, results, cmp, renders>>

\* The test calls engine.Render(b, name, data).
Render(name, data) ==
  /\ engine.built
  /\ renders.pc = "none"
  /\ renders' = call(engine, [renders EXCEPT !.pc = "running"], name, data)
  /\ UNCHANGED <<source, tmpl, heap, calls, results, cmp, engine>>

\* The call of Render in progress takes its next step.
RenderStep ==
  /\ renders.pc = "running"
  /\ renders' = render(engine, renders)
  /\ UNCHANGED <<source, tmpl, heap, calls, results, cmp, engine>>

NextEngine ==
  \/ \E fn \in EscapeFuncs : NewEngine(fn)
  \/ \E name \in DOMAIN Bodies : \E body \in Bodies[name] : Register(name, body)
  \/ \E name \in {"h", "l", "p", "x"} : Render(name, DataRender)
  \/ RenderStep

\* An Engine, its registrations and one call of Render, which goes on
\* while it can.
SpecEngine == Init /\ [][NextEngine]_vars /\ WF_vars(RenderStep)

(***************************************************************************)
(* The properties                                                          *)
(***************************************************************************)
\* The bytes a log accounts for: what its text, literal and value events
\* wrote, in order.
Written(log) ==
  Concat([j \in 1..Len(log) |->
            IF log[j].ev \in {"text", "literal", "write"} THEN log[j].s ELSE <<>>])

\* The events of kind ev in the log of call c, by position.
At(c, ev) == {j \in 1..Len(calls[c].log) : calls[c].log[j].ev = ev}

\* C1: a template source that holds no "{{" is accepted by NewTemplate, and
\* every Execute, whatever the data and the escape function, writes exactly
\* the source and returns no error; the empty source writes nothing.
C1_LiteralSourceIsWritten ==
  (tmpl.status # "none" /\ Index(source, leftDelim) < 0) =>
    /\ tmpl.status = "ok"
    /\ \A i \in 1..Len(results) : results[i].out = source /\ results[i].err = NoPanic
    /\ \A c \in DOMAIN calls : calls[c].pc = "done" => calls[c].out = source

\* A source without "{{" that holds characters HTMLEscape would change has
\* been executed under HTMLEscape.
C1_Witness ==
  /\ Index(source, leftDelim) < 0
  /\ \E i \in 1..Len(source) : source[i] = "<"
  /\ \E i \in 1..Len(source) : source[i] = "{"
  /\ tmpl.escapeFunc = "HTMLEscape"
  /\ Len(results) > 0
  /\ results[1].out = source

\* The node kinds whose value is read from the data, the variables or a
\* helper without any operator.
ReadKinds == {"identifier", "variable", "access", "bracket_access", "call"}

\* C2: a value written for a statement is escaped exactly once by the
\* template's escape function unless it is Safe or Nil; a Safe value is
\* written verbatim with no call of the escape function; Nil writes nothing;
\* text outside the delimiters reaches the sink as it stands in the source.
C2_EscapedExactlyOnce ==
  \A c \in DOMAIN calls :
    /\ calls[c].out = Written(calls[c].log)
    /\ \A j \in At(c, "text") : Index(source, calls[c].log[j].s) >= 0
    /\ \A j \in At(c, "write") :
         LET e == calls[c].log[j]
         IN  CASE e.v.t = "Safe" -> e.writeEsc = <<>> /\ e.s = e.v.s
               [] e.v.t = "nil" -> e.writeEsc = <<>> /\ e.s = <<>>
               [] OTHER ->
                    /\ Len(e.writeEsc) = 1
                    /\ e.s = Escape(tmpl.escapeFunc, e.writeEsc[1])
                    /\ e.v.t = "string" => e.writeEsc[1] = e.v.s
                    /\ e.n.kind \in ReadKinds => e.accessEsc = <<>>

\* One call has written a string that escaping changed, a Safe value that
\* escaping would have changed, and Nil.
C2_Witness ==
  \E c \in DOMAIN calls :
    /\ tmpl.escapeFunc = "HTMLEscape"
    /\ \E j \in At(c, "write") :
         calls[c].log[j].v.t = "string" /\ calls[c].log[j].s # calls[c].log[j].v.s
    /\ \E j \in At(c, "write") :
         calls[c].log[j].v.t = "Safe" /\ HTMLEscape(calls[c].log[j].v.s) # calls[c].log[j].s
    /\ \E j \in At(c, "write") : calls[c].log[j].v = NilV

RECURSIVE PlusOperands(_)
\* The operands of a chain of + operators, left to right.
PlusOperands(n) ==
  IF n.kind = "infix" /\ n.children[2].value = <<"+">>
  THEN PlusOperands(n.children[1]) \o PlusOperands(n.children[3])
  ELSE <<n>>

\* The values of the operands of the chain written by event e of call c.
OperandValues(c, e) ==
  [k \in 1..Len(PlusOperands(e.n)) |->
     access(tmpl, PlusOperands(e.n)[k], calls[c].data, e.vars).v]

\* Whether event e of call c wrote a chain of + over strings.
IsConcat(c, e) ==
  /\ e.n.kind = "infix"
  /\ e.n.children[2].value = <<"+">>
  /\ \A k \in 1..Len(PlusOperands(e.n)) : OperandValues(c, e)[k].t \in {"string", "Safe"}

\* C3: in a chain of + over Safe and non-Safe strings every non-Safe operand
\* is escaped exactly once and no Safe operand is; the result is a Safe value,
\* written verbatim with no further call of the escape function.
C3_ConcatEscapesUnsafeOnce ==
  \A c \in DOMAIN calls : \A j \in At(c, "write") :
    LET e == calls[c].log[j]
        vals == OperandValues(c, e)
    IN  IsConcat(c, e) =>
          /\ e.v = SafeV(Concat([k \in 1..Len(vals) |->
                                   IF vals[k].t = "Safe" THEN vals[k].s
                                   ELSE Escape(tmpl.escapeFunc, vals[k].s)]))
          /\ e.accessEsc = Concat([k \in 1..Len(vals) |->
                                     IF vals[k].t = "Safe" THEN <<>> ELSE <<vals[k].s>>])
          /\ e.writeEsc = <<>>
          /\ e.s = e.v.s

\* A chain of three operands, Safe and non-Safe, has been written under
\* HTMLEscape, and escaping changed its non-Safe operand.
C3_Witness ==
  \E c \in DOMAIN calls : \E j \in At(c, "write") :
    LET e == calls[c].log[j]
    IN  /\ IsConcat(c, e)
        /\ Len(PlusOperands(e.n)) = 3
        /\ tmpl.escapeFunc = "HTMLEscape"
        /\ \E k \in 1..3 : OperandValues(c, e)[k].t = "Safe"
        /\ \E k \in 1..3 : /\ OperandValues(c, e)[k].t = "string"
                           /\ HTMLEscape(OperandValues(c, e)[k].s) # OperandValues(c, e)[k].s

\* Whether lexing a source fails: the lexer panics or emits an Error token.
LexFails(src) ==
  \/ Lex(src).panicked
  \/ \E i \in 1..Len(Lex(src).tokens) : Lex(src).tokens[i].kind = "error"

\* C4: NewTemplate never panics, and it returns an error, and so no
\* Template, for every source whose lexing fails or yields an Error token.
C4_NewTemplateRejectsMalformed ==
  tmpl.status # "none" =>
    /\ tmpl.status # "panic"
    /\ LexFails(source) => tmpl.status = "error"

\* C5: a call of Execute in which a node fails returns one non-nil error,
\* the failure; the failure is the last thing the call did, nothing is
\* evaluated or written after it, and the sink holds what was written before
\* it.  A call in which no node fails returns nil.
C5_StopsAtFirstFailure ==
  \A c \in DOMAIN calls :
    /\ calls[c].pc = "running" => At(c, "panic") = {}
    /\ calls[c].pc = "done" =>
         /\ calls[c].stack = <<>>
         /\ calls[c].out = Written(calls[c].log)
         /\ (At(c, "panic") = {}) <=> (calls[c].err = NoPanic)
         /\ At(c, "panic") # {} =>
              /\ At(c, "panic") = {Len(calls[c].log)}
              /\ calls[c].err = calls[c].log[Len(calls[c].log)].pv
              /\ calls[c].err.kind \in {"string", "error"}

\* A call has failed on a panic with a string, inside the body of a Range,
\* after it had written, and with template text left unwritten.
C5_Witness ==
  \E c \in DOMAIN calls :
    /\ calls[c].pc = "done"
    /\ source = TplRangeFail
    /\ calls[c].err.kind = "string"
    /\ calls[c].out # <<>>
    /\ At(c, "iter") # {}
    /\ At(c, "text") = {}

RECURSIVE runAloneFor(_, _, _)
\* n steps, or as many as it takes to finish, of one call running by itself.
runAloneFor(t, st, n) ==
  IF n = 0 \/ st.cs.pc # "running" THEN st
  ELSE IF n = 1 THEN step(t, st.heap, st.cs)
  ELSE runAloneFor(t, runAloneFor(t, st, n \div 2), n - (n \div 2))

\* The steps a call is given to finish by itself.
MaxSteps == 128

\* Execute(out, data) on template t with nothing else running.
RunAlone(t, data) ==
  runAloneFor(t, St(<<>>, [IdleCall EXCEPT !.pc = "running", !.data = data,
                                           !.chans = Channels(data),
                                           !.stack = <<ExecuteFrame(1)>>]),
              MaxSteps).cs

\* Every finished call returned what it returns when it runs alone.
ResultsAsAlone ==
  \A i \in 1..Len(results) :
    LET alone == RunAlone(tmpl, results[i].data)
    IN  /\ alone.pc = "done"
        /\ results[i].out = alone.out
        /\ results[i].err = alone.err

\* C6: whatever the interleaving of the calls of Execute on one Template,
\* each call returns the output and the error it returns when it runs alone
\* on its data, and no step of any call changes the Template.
C6_ConcurrentCallsIndependent ==
  /\ []ResultsAsAlone
  /\ [][tmpl.status = "ok" => tmpl' = tmpl]_vars

\* The addresses of the loop scopes call c allocated.
Rids(c) == {calls[c].log[j].rid : j \in At(c, "range")}

\* Two callers with different data have finished calls whose loops were
\* interleaved: one allocated a loop scope between two of the other's.
C6_Witness ==
  /\ Len(results) = 2
  /\ results[1].call # results[2].call
  /\ results[1].data # results[2].data
  /\ results[1].out # results[2].out
  /\ \E x \in Rids(1), z \in Rids(1), y \in Rids(2) : x < y /\ y < z

\* Nil, a nil host reference and the boolean false.
Falsy(v) ==
  \/ v = NilV
  \/ v.t \in {"ptr", "slice", "map", "func"} /\ v.isNil
  \/ v = BoolV(FALSE)

\* C7: an If runs its then-block exactly when its condition is not Nil, not
\* a nil host reference and not false; otherwise it runs its else-block when
\* it has one and nothing when it has none; it never runs both: the block it
\* chose is the next thing the call evaluates, and no block of an If is
\* evaluated at any other time.
C7_IfRunsOneBranch ==
  \A c \in DOMAIN calls :
    /\ \A j \in At(c, "if") :
         LET e == calls[c].log[j]
             expected == IF ~Falsy(e.cond) THEN "then"
                         ELSE IF Len(e.n.children) > 2 THEN "else" ELSE "none"
         IN  /\ e.branch = expected
             /\ j < Len(calls[c].log) =>
                  CASE expected = "then" ->
                         calls[c].log[j + 1] = [ev |-> "block", n |-> e.n.children[2]]
                    [] expected = "else" ->
                         calls[c].log[j + 1] = [ev |-> "block", n |-> e.n.children[3]]
                    [] OTHER -> calls[c].log[j + 1].ev # "block"
    /\ \A k \in At(c, "block") : k > 1 /\ calls[c].log[k - 1].ev \in {"if", "iter"}

\* One call has taken the then-block on a string, the else-block on Nil and
\* on a nil pointer, and no block on false.
C7_Witness ==
  \E c \in DOMAIN calls :
    /\ calls[c].pc = "done"
    /\ \E j \in At(c, "if") : calls[c].log[j].cond.t = "string" /\ calls[c].log[j].branch = "then"
    /\ \E j \in At(c, "if") : calls[c].log[j].cond = NilV /\ calls[c].log[j].branch = "else"
    /\ \E j \in At(c, "if") : calls[c].log[j].cond = NilPtrV /\ calls[c].log[j].branch = "else"
    /\ \E j \in At(c, "if") : calls[c].log[j].cond = BoolV(FALSE) /\ calls[c].log[j].branch = "none"

\* The turns, by position in the log of call c, of the Range whose scope is
\* rid.
Turns(c, rid) == {k \in At(c, "iter") : calls[c].log[k].rid = rid}

\* The turn at position k is followed by the evaluation of the body of its
\* Range.
BodyRuns(c, k) ==
  k < Len(calls[c].log) =>
    calls[c].log[k + 1] =
      [ev |-> "block", n |-> calls[c].log[k].n.children[Len(calls[c].log[k].n.children)]]

\* C8: a Range over a slice of length n evaluates its body n times, turn i
\* (0, 1, ..., n-1 in this order) on element i; the two-variable form binds
\* the first variable to i and the second to the element, the single-variable
\* form binds its variable to i.
C8_RangeOverSlice ==
  \A c \in DOMAIN calls : \A j \in At(c, "range") :
    LET r == calls[c].log[j]
    IN  r.over.t = "slice" =>
          /\ Cardinality(Turns(c, r.rid)) <= Len(r.over.elems)
          /\ \A k \in At(c, "rangeEnd") :
               calls[c].log[k].rid = r.rid =>
                 Cardinality(Turns(c, r.rid)) = Len(r.over.elems)
          /\ \A k \in Turns(c, r.rid) :
               LET e == calls[c].log[k]
               IN  /\ e.i = Cardinality({k2 \in Turns(c, r.rid) : k2 < k})
                   /\ BodyRuns(c, k)
                   /\ MapGet(e.bound, e.n.children[1].value) = IntV(e.i)
                   /\ Len(e.n.children) = 4 =>
                        MapGet(e.bound, e.n.children[2].value) = r.over.elems[e.i + 1]

LoopScopes(c) == {calls[c].log[j].rid : j \in At(c, "range")}

\* C10: a Range never changes the scope that encloses it: while it runs the
\* enclosing map holds what it held when the Range began; a statement
\* outside every Range sees no variable at all, so the variables of a
\* finished loop read as Nil; and a statement in the body of a Range sees
\* what the latest turn of that Range bound, whatever Ranges nested in the
\* body have bound under the same names since.
C10_LoopVariablesAreScoped ==
  \A c \in DOMAIN calls :
    /\ \A f \in 1..Len(calls[c].stack) :
         calls[c].stack[f].op = "loop" =>
           heap[calls[c].stack[f].outer] = calls[c].stack[f].outerAtStart
    /\ \A j \in At(c, "write") :
         LET e == calls[c].log[j]
             turns == {k \in Turns(c, e.scope) : k < j}
         IN  /\ e.scope \notin LoopScopes(c) => e.vars = EmptyMap
             /\ e.scope \in LoopScopes(c) =>
                  /\ turns # {}
                  /\ e.vars = calls[c].log[CHOOSE k \in turns : \A k2 \in turns : k2 <= k].bound
             /\ e.n.kind = "variable" => e.v = MapGet(e.vars, e.n.value)

\* One call, finished: after a nested Range that bound the outer loop's
\* variable name to other values, the outer body has written the outer value
\* of the variable; and after the outer Range, a statement outside it has
\* read that variable as Nil.
C10_Witness ==
  \E c \in DOMAIN calls :
    /\ calls[c].pc = "done"
    /\ \E j \in At(c, "write") : \E k \in At(c, "iter") :
         LET e == calls[c].log[j]
             inner == calls[c].log[k]
         IN  /\ k < j
             /\ inner.rid # e.scope
             /\ e.scope \in LoopScopes(c)
             /\ e.n.kind = "variable"
             /\ e.n.value \in DOMAIN inner.bound
             /\ inner.bound[e.n.value] # e.v
             /\ e.v = IntV(1)
    /\ \E j \in At(c, "write") : \E k \in At(c, "rangeEnd") :
         /\ k < j
         /\ calls[c].log[j].scope \notin LoopScopes(c)
         /\ calls[c].log[j].n.kind = "variable"
         /\ calls[c].log[j].v = NilV
         /\ calls[c].log[j].s = <<>>


\* The values call c received in the turns of the Range whose scope is rid,
\* in the order of the turns.
RECURSIVE ReceivedUpTo(_, _, _)
ReceivedUpTo(c, rid, j) ==
  IF j = 0 THEN <<>>
  ELSE IF calls[c].log[j].ev = "iter" /\ calls[c].log[j].rid = rid
  THEN Append(ReceivedUpTo(c, rid, j - 1), calls[c].log[j].item)
  ELSE ReceivedUpTo(c, rid, j - 1)

\* The values sent on channel id during the first j events of call c.
RECURSIVE SentUpTo(_, _, _)
SentUpTo(c, id, j) ==
  IF j = 0 THEN <<>>
  ELSE IF calls[c].log[j].ev = "send" /\ calls[c].log[j].id = id
  THEN Append(SentUpTo(c, id, j - 1), calls[c].log[j].v)
  ELSE SentUpTo(c, id, j - 1)

\* The turn at position k is followed by the evaluation of the body of its
\* Range, whatever other goroutines do to the channels meanwhile.
ChanBodyRuns(c, k) ==
  LET log == calls[c].log
      own == {m \in (k + 1)..Len(log) : log[m].ev \notin {"send", "close"}}
  IN  own # {} =>
        LET m == CHOOSE m \in own : \A o \in own : m <= o
        IN  log[m] = [ev |-> "block", n |-> log[k].n.children[Len(log[k].n.children)]]

\* What a Range over a channel has done so far in call c, the Range having
\* started at position j of the log: turn i (0, 1, ...) received the i-th
\* value of those the channel held or was sent, and ran the body; once it
\* has ended, it has received every value the channel held when it started
\* (all of them when nothing was sent meanwhile), and when it has just ended
\* the channel is empty.
ChanRange(c, j) ==
  LET r == calls[c].log[j]
      log == calls[c].log
      got == ReceivedUpTo(c, r.rid, Len(log))
      atStart == r.over.buf \o SentUpTo(c, r.over.id, j)
      all == r.over.buf \o SentUpTo(c, r.over.id, Len(log))
  IN  /\ Len(got) <= Len(all)
      /\ \A i \in 1..Len(got) : got[i] = [k |-> IntV(i - 1), v |-> all[i]]
      /\ \A k \in Turns(c, r.rid) : ChanBodyRuns(c, k)
      /\ r.over.isNil => got = <<>>
      /\ \A k \in At(c, "rangeEnd") :
           log[k].rid = r.rid =>
             /\ log[k].count = Len(got)
             /\ Len(got) >= Len(atStart)
             /\ SentUpTo(c, r.over.id, k) = SentUpTo(c, r.over.id, j) =>
                  Len(got) = Len(atStart)
             /\ k = Len(log) => calls[c].chans[r.over.id].buf = <<>>

\* C11: a Range over a channel never blocks.  Each turn receives the next
\* value that is there, in the order the values were sent, with the indices
\* 0, 1, 2, ...; the Range ends when no value is there or the channel is
\* closed and empty, leaving a channel nobody sends on empty after as many
\* turns as it held values, and none for an empty or a nil channel; and
\* every call of Execute that has started returns.
C11_RangeOverChannelNeverBlocks ==
  /\ [](\A c \in DOMAIN calls : \A j \in At(c, "range") :
          calls[c].log[j].over.t = "chan" => ChanRange(c, j))
  /\ calls[1].pc = "running" ~> calls[1].pc = "done"

\* A call has returned without error after a Range over a channel that held
\* two values, and nothing was sent on it and nobody closed it meanwhile:
\* two turns, and the channel is empty.
C11_Witness ==
  /\ source = TplRangeChan
  /\ calls[1].pc = "done"
  /\ calls[1].err = NoPanic
  /\ At(1, "send") = {} /\ At(1, "close") = {}
  /\ Cardinality(At(1, "iter")) = 2
  /\ calls[1].chans["c"].buf = <<>>
  /\ Len(calls[1].out) > 3

\* The call node whose value the node n needs first: n itself, the condition
\* of an If, or what a Range ranges over.
CallOf(n) ==
  IF n.kind = "call" THEN n
  ELSE IF n.kind = "if" /\ n.children[1].kind = "call" THEN n.children[1]
  ELSE IF n.kind = "range" /\ Len(n.children) = 3 /\ n.children[2].kind = "call"
  THEN n.children[2]
  ELSE IF n.kind = "range" /\ Len(n.children) = 4 /\ n.children[3].kind = "call"
  THEN n.children[3]
  ELSE NilNode

\* Invoking the callee of the call node n fails: the callee and the
\* arguments have their values, and the call of the callee on them panics.
InvocationFails(t, n, data, scope) ==
  /\ n # NilNode
  /\ LET toCall == access(t, n.children[1], data, scope)
         args == accessArgs(t, Tail(n.children), data, scope)
     IN  /\ toCall.panic = NoPanic
         /\ args.panic = NoPanic
         /\ callFunc(toCall.v, args.vs).panic # NoPanic

\* C12: when the invocation of a helper fails (the wrong number or types of
\* arguments, a callee that is no function, a helper that panics), the step
\* ends the call of Execute with an error, and the error's message is
\* "error calling function" with the callee's name.
C12_HelperFailureIsRenderError ==
  [][\A c \in DOMAIN calls :
       (/\ calls[c].pc = "running"
        /\ Head(calls[c].stack).op = "eval"
        /\ InvocationFails(tmpl, CallOf(Head(calls[c].stack).n), calls[c].data,
                           heap[Head(calls[c].stack).vars]))
       => /\ calls'[c].pc = "done"
          /\ calls'[c].err.kind = "string"
          /\ calls'[c].err.msg = "error calling function"
          /\ calls'[c].err.name = CallOf(Head(calls[c].stack).n).children[1].value
          /\ calls'[c].out = calls[c].out]_vars

\* Two calls of Execute have failed on helper invocations: safe called on an
\* integer, and len called without arguments.
C12_Witness ==
  /\ source = TplCallFail
  /\ Len(results) = 2
  /\ results[1].err.msg = "error calling function"
  /\ results[2].err.msg = "error calling function"
  /\ {results[1].err.name, results[2].err.name} = {<<"s", "a", "f", "e">>, <<"l", "e", "n">>}

\* C13: every error Execute returns carries the starting line of the node
\* that failed, a line of the source, and the lines of the source the node
\* spans.
C13_RenderErrorsCarryLine ==
  \A i \in 1..Len(results) :
    results[i].err # NoPanic =>
      /\ results[i].err.line \in 1..Len(SplitLines(source))
      /\ results[i].err.excerpt # <<>>

\* The operators of arithmetic.
ArithOps == {<<"+">>, <<"-">>, <<"*">>, <<"/">>, <<"%">>}

\* The numeric result of a op b, computed in the type kind.
ArithResult(op, a, b, kind) ==
  WrapTo(kind, CASE op = <<"+">> -> a + b
                 [] op = <<"-">> -> a - b
                 [] op = <<"*">> -> a * b
                 [] op = <<"/">> -> Quot(a, b)
                 [] OTHER -> Rem(a, b))

\* C14: an arithmetic operation on numbers a and b of different types, the
\* type of a convertible to the type of b, is done in the type of b: the
\* value written has the type of b and Execute returns no error.
C14_LeftOperandConverted ==
  \A c \in DOMAIN calls :
    (/\ calls[c].pc = "done"
     /\ Len(tmpl.ast.children) = 1
     /\ tmpl.ast.children[1].kind = "statement"
     /\ tmpl.ast.children[1].children[1].kind = "infix"
     /\ tmpl.ast.children[1].children[1].children[2].value \in ArithOps) =>
      LET n == tmpl.ast.children[1].children[1]
          a == MapGet(calls[c].data, n.children[1].value)
          b == MapGet(calls[c].data, n.children[3].value)
      IN  (/\ n.children[1].kind = "identifier" /\ n.children[3].kind = "identifier"
           /\ a.t \in NumericKinds /\ b.t \in NumericKinds
           /\ a.t # b.t
           /\ ConvertibleTo(a.t, b.t)) =>
            /\ calls[c].err = NoPanic
            /\ \E j \in At(c, "write") :
                 calls[c].log[j].v =
                   NumV(b.t, ArithResult(n.children[2].value, a.n, b.n, b.t))

\* Whether the relation the template src tests holds of a and b.
OrderingHolds(src, a, b) ==
  CASE src = TplGreater -> a > b
    [] src = TplLess -> a < b
    [] src = TplGreaterEq -> a >= b
    [] OTHER -> a <= b

\* C15: a template that tests n > 3, n < 3, n >= 3 or n <= 3 in an If is
\* accepted by NewTemplate, and a call of Execute on data whose n is an
\* integer returns no error and writes foo exactly when the relation holds.
C15_OrderingOperatorsUsable ==
  (source \in {TplGreater, TplLess, TplGreaterEq, TplLessEq} /\ tmpl.status # "none") =>
    /\ tmpl.status = "ok"
    /\ \A i \in 1..Len(results) :
         MapGet(results[i].data, <<"n">>).t = "int" =>
           /\ results[i].err = NoPanic
           /\ results[i].out =
                IF OrderingHolds(source, MapGet(results[i].data, <<"n">>).n, 3)
                THEN <<"f", "o", "o">> ELSE <<>>

RECURSIVE SumSeq(_)
SumSeq(ns) == IF ns = <<>> THEN 0 ELSE Head(ns) + SumSeq(Tail(ns))

\* The number of binary subtractions in the tree n.
RECURSIVE MinusNodes(_)
MinusNodes(n) ==
  (IF n.kind = "infix" /\ n.children[2].value = <<"-">> THEN 1 ELSE 0)
  + SumSeq([i \in 1..Len(n.children) |-> MinusNodes(n.children[i])])

\* Some "-" of the text s is followed by a space.
MinusBeforeSpace(s) == \E i \in 1..(Len(s) - 1) : s[i] = "-" /\ s[i + 1] \in Spaces

\* The tree of 0 == len(xs) - 1, but for the lines of its nodes.
MathOrderShape(n) ==
  /\ n.kind = "infix" /\ Len(n.children) = 3
  /\ n.children[1].kind = "int" /\ n.children[1].value = <<"0">>
  /\ n.children[2].value = <<"=", "=">>
  /\ LET right == n.children[3]
     IN  /\ right.kind = "infix" /\ Len(right.children) = 3
         /\ right.children[1].kind = "call"
         /\ Len(right.children[1].children) = 2
         /\ right.children[1].children[1].value = <<"l", "e", "n">>
         /\ right.children[1].children[2].value = <<"x", "s">>
         /\ right.children[2].value = <<"-">>
         /\ right.children[3].kind = "int" /\ right.children[3].value = <<"1">>

\* C16: a "-" followed by a space is a subtraction whose left operand is the
\* whole operand before it: 0 == len(xs) - 1 is the comparison of 0 with the
\* subtraction of 1 from the call len(xs), true exactly when xs has one
\* element.  A template none of whose "-" is followed by a space has no
\* subtraction in its tree.
C16_MinusWithSpaceIsSubtraction ==
  tmpl.status = "ok" =>
    /\ ~MinusBeforeSpace(source) => MinusNodes(tmpl.ast) = 0
    /\ source = TplMathOrder =>
         /\ Len(tmpl.ast.children) = 1
         /\ tmpl.ast.children[1].kind = "statement"
         /\ Len(tmpl.ast.children[1].children) = 1
         /\ tmpl.ast.children[1].children[1].kind = "if"
         /\ MathOrderShape(tmpl.ast.children[1].children[1].children[1])
         /\ \A i \in 1..Len(results) :
              MapGet(results[i].data, <<"x", "s">>).t = "slice" =>
                /\ results[i].err = NoPanic
                /\ results[i].out =
                     IF Len(MapGet(results[i].data, <<"x", "s">>).elems) = 1
                     THEN <<"y">> ELSE <<>>

\* 0 == len(xs) - 1 has been evaluated on a slice of one element and on a
\* slice of two.
C16_Witness ==
  /\ source = TplMathOrder
  /\ Len(results) = 2
  /\ results[1].out = <<"y">>
  /\ results[2].out = <<>> /\ results[2].err = NoPanic

\* What {{!x}}{{if x}}1{{else}}0{{end}} writes for a value v of x, were Not
\* the complement of the rule If uses.
NotIfOut(v) ==
  IF isTruthy(v) THEN <<"f", "a", "l", "s", "e", "1">> ELSE <<"t", "r", "u", "e", "0">>

\* C17: Not and If use one truthiness rule: for the values of p, f and n
\* (missing, a nil pointer, a nil slice, false, true, integers, a string),
\* !v is true exactly when if v does not take its then-branch.
C17_NotAgreesWithIf ==
  source = TplNotIf =>
    \A i \in 1..Len(results) :
      /\ results[i].err = NoPanic
      /\ results[i].out = NotIfOut(MapGet(results[i].data, <<"p">>))
                            \o NotIfOut(MapGet(results[i].data, <<"f">>))
                            \o NotIfOut(MapGet(results[i].data, <<"n">>))

RECURSIVE TextOf(_)
\* The text nodes of the tree n, concatenated in order.
TextOf(n) ==
  IF n.kind = "text" THEN n.value
  ELSE LET RECURSIVE Cat(_)
           Cat(ns) == IF ns = <<>> THEN <<>> ELSE TextOf(Head(ns)) \o Cat(Tail(ns))
       IN  Cat(n.children)

\* C18: an end or an else that closes no open if or range is a parse error:
\* NewTemplate accepts neither {{end}}{{ nor x{{else}}y, so that no text after
\* such a token is missing from an accepted template's tree.
C18_StrayEndIsParseError ==
  /\ (source \in {TplStrayEnd, TplStrayElse} /\ tmpl.status # "none") =>
       tmpl.status = "error"
  /\ (source = TplStrayElse /\ tmpl.status = "ok") =>
       TextOf(tmpl.ast) = <<"x", "y">>

\* The value of the expression after k: in the map literal of the template
\* src, on data that holds n, xs and m.
PairValue(src, data) ==
  CASE src = TplMapIdent -> data[<<"n">>]
    [] src = TplMapIndex -> data[<<"x", "s">>].elems[1]
    [] src = TplMapDot -> data[<<"m">>].m[<<"a">>]
    [] OTHER -> IntV(Len(data[<<"x", "s">>].elems))

\* C19: the value of a pair of a map literal may be any expression: the
\* templates whose pair value is n, xs[0], m.a and len(xs) are accepted by
\* NewTemplate, and a call of Execute on data that holds these names returns
\* no error and writes the map whose entry k is the value of the expression.
C19_MapPairValueIsExpression ==
  (source \in {TplMapIdent, TplMapIndex, TplMapDot, TplMapCall} /\ tmpl.status # "none") =>
    /\ tmpl.status = "ok"
    /\ \A i \in 1..Len(results) :
         <<"x", "s">> \in DOMAIN results[i].data =>
           /\ results[i].err = NoPanic
           /\ results[i].out =
                valueToString(MapV(<<"k">> :> PairValue(source, results[i].data)),
                              tmpl.escapeFunc).s

\* C20: indexing a map with a key of its key type that it does not hold
\* yields Nil: {{m["q"]}}x{{m["a"]}} on a map m with the key a and without
\* the key q writes nothing for m["q"], then x and the entry a, and Execute
\* returns no error.
C20_MissingKeyIndexIsNil ==
  (source = TplBracketMissing /\ tmpl.status # "none") =>
    /\ tmpl.status = "ok"
    /\ \A i \in 1..Len(results) :
         LET m == MapGet(results[i].data, <<"m">>)
         IN  (m.t = "map" /\ <<"q">> \notin DOMAIN m.m /\ <<"a">> \in DOMAIN m.m) =>
               /\ results[i].err = NoPanic
               /\ results[i].out =
                    <<"x">> \o valueToString(m.m[<<"a">>], tmpl.escapeFunc).s

\* What the template src, one primary literal as a whole statement, renders.
LiteralOut(src) ==
  CASE src = TplNil -> <<"a", "b">>
    [] src = TplTrue -> <<"t", "r", "u", "e">>
    [] src = TplFalse -> <<"f", "a", "l", "s", "e">>
    [] src = TplInt -> <<"4", "2">>
    [] OTHER -> <<"<", "a">>

\* C21: every primary literal is a whole statement: a{{nil}}b, {{true}},
\* {{false}}, {{42}} and {{"<a"}} are accepted by NewTemplate, and Execute
\* returns no error and writes ab, true, false, 42 and the string's content.
C21_LiteralIsStatement ==
  (source \in {TplNil, TplTrue, TplFalse, TplInt, TplLiteral} /\ tmpl.status # "none") =>
    /\ tmpl.status = "ok"
    /\ \A i \in 1..Len(results) :
         results[i].err = NoPanic /\ results[i].out = LiteralOut(source)

\* The positions of the EOF tokens among toks.
EOFs(toks) == {i \in 1..Len(toks) : toks[i].kind = "eof"}

\* C24: Lex ends on every input without a panic, and the tokens it returns
\* end with the EOF token, which occurs once.
C24_LexEndsWithEOF ==
  tmpl.status # "none" =>
    LET l == Lex(source)
    IN  /\ ~l.panicked
        /\ EOFs(l.tokens) = {Len(l.tokens)}

RECURSIVE TokenEnd(_, _)
\* The offset in the input at which the token i of toks ends: tokens are
\* consecutive spans of the input.
TokenEnd(toks, i) == IF i = 0 THEN 0 ELSE TokenEnd(toks, i - 1) + Len(toks[i].value)

\* The line of the offset k of the text s: 1 plus the newlines before it.
LineAt(s, k) == 1 + CountNewlines(Slice(s, 0, k))

\* C25: every token Lex emits starts on the line of its first character and
\* ends on the line of its end: 1 plus the number of newlines of the input
\* before that place.
C25_TokenLinesCountNewlines ==
  (tmpl.status # "none" /\ ~Lex(source).panicked) =>
    LET toks == Lex(source).tokens
    IN  \A i \in 1..Len(toks) :
          toks[i].kind # "error" =>
            /\ toks[i].startLine = LineAt(source, TokenEnd(toks, i - 1))
            /\ toks[i].endLine = LineAt(source, TokenEnd(toks, i))

\* The shape of the node n alone: what the evaluator indexes of an If, a
\* Range, an Infix and a Statement.
ShapeOK(n) ==
  CASE n.kind = "if" ->
         /\ Len(n.children) \in {2, 3}
         /\ n.children[1] # NilNode
         /\ \A i \in 2..Len(n.children) : n.children[i].kind = "block"
    [] n.kind = "range" ->
         /\ Len(n.children) \in {3, 4}
         /\ \A i \in 1..(Len(n.children) - 2) : n.children[i].kind = "variable"
         /\ n.children[Len(n.children) - 1] # NilNode
         /\ n.children[Len(n.children)].kind = "block"
    [] n.kind = "infix" ->
         /\ Len(n.children) = 3
         /\ n.children[1] # NilNode
         /\ n.children[2].kind = "operator"
         /\ n.children[3] # NilNode
    [] n.kind = "statement" -> Len(n.children) = 1 /\ n.children[1] # NilNode
    [] OTHER -> TRUE

RECURSIVE WellFormed(_)
WellFormed(n) == ShapeOK(n) /\ \A i \in 1..Len(n.children) : WellFormed(n.children[i])

RECURSIVE NodesOf(_)
\* The nodes of the tree n.
NodesOf(n) == {n} \cup UNION {NodesOf(n.children[i]) : i \in 1..Len(n.children)}

\* C26: the tree of every accepted template is well-formed: an If has a
\* condition, a then Block and at most an else Block, a Range has one or two
\* variables, a collection and a Block, an Infix has a left operand, an
\* Operator and a right operand, and a Statement has one child, none nil.
C26_ASTWellFormed ==
  tmpl.status = "ok" => WellFormed(tmpl.ast)

\* A template with an If with and without else, a Range with one and with
\* two variables and an Infix has been accepted.
C26_Witness ==
  /\ tmpl.status = "ok"
  /\ \E n \in NodesOf(tmpl.ast) : n.kind = "if" /\ Len(n.children) = 3
  /\ \E n \in NodesOf(tmpl.ast) : n.kind = "if" /\ Len(n.children) = 2
  /\ \E n \in NodesOf(tmpl.ast) : n.kind = "range" /\ Len(n.children) = 4
  /\ \E n \in NodesOf(tmpl.ast) : n.kind = "range" /\ Len(n.children) = 3
  /\ \E n \in NodesOf(tmpl.ast) : n.kind = "infix"

\* C28: in the body of a Range with one variable, every variable of the
\* enclosing scope other than the loop variable holds the value it holds in
\* the enclosing scope.
C28_SingleRangeBindsOnlyItsVariable ==
  \A c \in DOMAIN calls :
    \A f \in 1..Len(calls[c].stack) :
      (calls[c].stack[f].op = "loop" /\ Len(calls[c].stack[f].n.children) = 3) =>
        \A name \in DOMAIN calls[c].stack[f].outerAtStart :
          name # calls[c].stack[f].iteratorName =>
            MapGet(heap[calls[c].stack[f].vars], name) = calls[c].stack[f].outerAtStart[name]

\* C27: equality is symmetric: compare(l, r) and compare(r, l) give the same
\* result for all values l and r.
C27_CompareSymmetric ==
  cmp.pc = "compared" => cmp.eq = cmp.eqBack

\* C30: between a signed and an unsigned integer lessThan follows the
\* value: lessThan(a, b) is true exactly when a is less than b, whatever
\* the sign of the signed operand, and so is lessThan(b, a).
C30_LessThanAcrossSigns ==
  (/\ cmp.pc = "ordered"
   /\ KindOf(cmp.l) \in SignedKinds
   /\ KindOf(cmp.r) \in UnsignedKinds) =>
    /\ cmp.lt = Less(cmp.l.n < cmp.r.n, "")
    /\ cmp.ltBack = Less(cmp.r.n < cmp.l.n, "")
    /\ ~(cmp.lt.b /\ cmp.ltBack.b)

\* The events of kind ev in the log of the calls of Render.
RenderEvents(ev) == {j \in 1..Len(renders.log) : renders.log[j].ev = ev}

\* The event of kind ev of the call id of Render, 0 when it has none.
EventOf(ev, id) ==
  IF \E j \in RenderEvents(ev) : renders.log[j].id = id
  THEN CHOOSE j \in RenderEvents(ev) : renders.log[j].id = id
  ELSE 0

\* The messages the error err wraps.
Messages(err) == {err[i] : i \in 1..Len(err)}

\* The page h with the layout l, and l with the layout r.
NestedLayouts ==
  /\ "h" \in DOMAIN engine.templates
  /\ engine.templates["h"] = <<Layout("l"), Show(<<"n">>)>>
  /\ "l" \in DOMAIN engine.templates
  /\ engine.templates["l"] = <<Layout("r"), Show(<<"t">>), Show(ChildContent)>>
  /\ "r" \in DOMAIN engine.templates

LayoutsBefore(name, n) ==
  {i \in 1..n : i <= Len(engine.templates[name]) /\ engine.templates[name][i].k = "layout"}

\* The partial statements among the first n statements of that template.
PartialsBefore(name, n) ==
  {i \in 1..n : i <= Len(engine.templates[name]) /\ engine.templates[name][i].k = "partial"}

C29_RenderTerminates ==
  (renders.pc = "running") ~> (renders.pc = "returned")

====
